---- MODULE Spec2Model ----
(***************************************************************************)
(* The session-lifecycle and buffering core of the HRM data logger:        *)
(* HRMDataLogger (src/HRM/data_logger.py), SessionManager                  *)
(* (src/HRM/localDB/session_manager.py), DataProcessor                     *)
(* (src/HRM/localDB/data_processor.py) and HRMDatabase                     *)
(* (src/HRM/localDB/database.py).                                          *)
(*                                                                         *)
(* Two asyncio tasks share the state: the ingestion task (_consume_data)   *)
(* and the maintenance task (periodic_tasks).  A task runs until it        *)
(* reaches an await that suspends it; pcI and pcP are the tasks'           *)
(* positions.  Python dicts are modelled as insertion-ordered association  *)
(* lists <<key, value>>, as the code iterates over them.  time.time() is   *)
(* the variable now; the successive clock reads of one synchronous call    *)
(* are a nondecreasing sequence starting at now.                           *)
(*                                                                         *)
(* Spec is the session and buffer core with storage that does not fail;    *)
(* SpecScript is one scripted run of it.  SpecFull is the whole logger:    *)
(* heartbeat and invalid frames, batch inserts that may raise, and the     *)
(* aggregate step of the maintenance tick.  SpecAgg applies                *)
(* compute_aggregates to bounded raw_metrics tables, and SpecConnect is    *)
(* the reconnect loop of connect_and_consume.  SpecTick is the two-device  *)
(* logger whose aggregate step may raise, SpecLive the one-device logger   *)
(* with fair scheduling, SpecService the connection loop beside the        *)
(* maintenance task and cleanup, SpecValidate applies validate_data to     *)
(* bounded records, and SpecRestart starts the logger on a store that an   *)
(* earlier run has left.  SpecShutdown is the service up to its shutdown   *)
(* with fair scheduling.  Two programs beside the logger have their own    *)
(* specifications: SpecRelay is the broadcast relay                        *)
(* (src/HRM/broadcast_ws_server.py) and SpecSync the sync of raw_metrics   *)
(* to the remote store (src/pipe-hr/hr_sync.py).                           *)
(***************************************************************************)
EXTENDS Integers, Sequences, FiniteSets, TLC

\* ------------------------------------------------------------- bounds
MaxTime == 3          \* the wall clock runs over 0..MaxTime
MaxTs == 2            \* ts_unix_s of a frame is in 0..MaxTs
MaxFrames == 3        \* frames handled by the ingestion loop
MaxDrift == 1         \* how far the clock may advance inside one synchronous call
gap_seconds == 1      \* SessionManager.gap_seconds (default 300), scaled down
buffer_size == 2      \* DataProcessor.buffer_size (default 30), scaled down
MaxRows == 3          \* rows of raw_metrics given to compute_aggregates
MaxAggTs == 3         \* their timestamps are in 0..MaxAggTs
MaxCalls == 2         \* successive compute_aggregates calls
MaxAttempts == 12     \* connects attempted by connect_and_consume
agg_interval == 1 \* width of the tick's aggregates (30 s in periodic_tasks), scaled down
MaxStored == 2        \* rows of sessions, and of raw_metrics, in the store at a restart
MaxRestartFrames == 1 \* frames handled after a restart

Null == -1            \* SQL NULL / Python None where a time is expected
max_retries == 10     \* connect_and_consume: max_retries = 10
backoff_cap == 30     \* connect_and_consume: min(2 ** retry_count, 30)

Devices == {"D1", "D2"}
\* uuid.uuid4().hex[:8]: a fresh value for every session created
Uuids == <<"u1", "u2", "u3", "u4", "u5", "u6", "u7", "u8">>
HrValues == {70}
Frames == [device_id : Devices, ts_unix_s : 0..MaxTs, hr_bpm : HrValues]

\* ------------------------------------------------------------- dicts
EmptyDict == << >>

DictKeys(d) == [i \in 1..Len(d) |-> d[i][1]]

Has(d, k) == \E i \in 1..Len(d) : d[i][1] = k

Get(d, k) == d[CHOOSE i \in 1..Len(d) : d[i][1] = k][2]

Put(d, k, v) ==
    IF Has(d, k)
    THEN [i \in 1..Len(d) |-> IF d[i][1] = k THEN <<k, v>> ELSE d[i]]
    ELSE Append(d, <<k, v>>)

Del(d, k) == SelectSeq(d, LAMBDA e : e[1] # k)

Min(a, b) == IF a < b THEN a ELSE b

VARIABLES
    now,              \* time.time()
    sessions,         \* table sessions, rows in insertion order
    raw_metrics,      \* table raw_metrics, rows in insertion order (id = position)
    active_sessions,  \* SessionManager.active_sessions: device_id -> session_id
    last_activity,    \* SessionManager.last_activity: device_id -> timestamp
    buffers,          \* DataProcessor.buffers: session_id -> deque of records
    last_timestamps,  \* DataProcessor.last_timestamps: session_id -> timestamp
    stats,            \* HRMDataLogger.stats
    running,          \* HRMDataLogger.running
    pcI,              \* position of the ingestion task
    pcP,              \* position of the maintenance task
    pcM,              \* position of run(): "gather" or "cleaned"
    call,             \* locals of the frame _consume_data handled last
    flush,            \* locals of the ingestion task's _flush_buffer(session_id)
    pflush,           \* locals of the maintenance task's _flush_buffer()
    accepted,         \* history: the <<session_id, record>> add_to_buffer enqueued
    drained,          \* history: the non-empty batches get_buffer returned
    offered,          \* history: session_id -> <<the timestamp offered last to
                      \* add_to_buffer, whether all offered so far were increasing>>
    resolved,         \* history: device_id -> <<current_time, session_id>> of the last
                      \* get_or_create_session call for it, until that session is closed
    aggregated_metrics, \* table aggregated_metrics, rows in insertion order
    conn,             \* connect_and_consume: retry_count, wait_time; history: the
                      \* connects attempted and why the loop was left
    agg_call,         \* history: the last compute_aggregates call and its result
    write_log,        \* history: the batch_insert_raw_metrics calls that failed
    tick_log,         \* history: the steps of the last maintenance tick
    msg,              \* history: number and kind of the messages _consume_data got
    db_conn,          \* HRMDatabase.conn: "open", or "closed" after db.close()
    checked,          \* history: the sample given to validate_data, and its answer
    relay,            \* broadcast_ws_server: connected_clients, data_source, the
                      \* position of the broadcast loop; history: who got the frame
    sync              \* HRDataSync: last_synced_timestamp; history: the rows sent

vars == <<now, sessions, raw_metrics, active_sessions, last_activity, buffers,
          last_timestamps, stats, running, pcI, pcP, pcM, call, flush, pflush,
          accepted, drained, offered, resolved, aggregated_metrics, conn, agg_call,
          write_log, tick_log, msg, db_conn, checked, relay, sync>>

\* The state of the aggregate table, of the connection loop and of the storage
\* faults: left alone by the steps of the fault-free session and buffer core.
ext == <<aggregated_metrics, conn, agg_call, write_log, tick_log, msg>>

\* The storage connection, left alone by every step but cleanup(), the sample
\* of a validate_data call made on its own, and the state of the two programs
\* beside the logger: the broadcast relay and the sync to the remote store.
ext2 == <<db_conn, checked, relay, sync>>

\* ------------------------------------------------------------- clock
\* The n successive time.time() reads of one synchronous call entered at now.
ClockReads(n) ==
    {r \in [1..n -> now..Min(now + MaxDrift, MaxTime)] :
        /\ r[1] = now
        /\ \A i \in 1..(n - 1) : r[i] <= r[i + 1]}

\* ------------------------------------------------------------- HRMDatabase
\* f"session_{uuid.uuid4().hex[:8]}_{int(time.time())}"
SessionId(uuid, t) == <<"session", uuid, t>>

\* session_id.split('_')
SplitUnderscore(session_id) == session_id

\* create_session that also clears the end_time of the device's earlier rows.
create_session_reopening(rows, device_id, t_id, t_start) ==
    LET session_id == SessionId(Uuids[Len(rows) + 1], t_id)
    IN  [session_id |-> session_id,
         rows |-> Append([i \in 1..Len(rows) |->
                             IF rows[i].device_id = device_id
                             THEN [rows[i] EXCEPT !.end_time = Null] ELSE rows[i]],
                         [session_id |-> session_id, start_time |-> t_start,
                          end_time |-> Null, device_id |-> device_id])]

create_session(rows, device_id, t_id, t_start) ==
    LET session_id == SessionId(Uuids[Len(rows) + 1], t_id)
    IN  [session_id |-> session_id,
         rows |-> Append(rows, [session_id |-> session_id, start_time |-> t_start,
                                end_time |-> Null, device_id |-> device_id])]

\* update_session_end_time writing to the rows of every other session.
update_session_end_time_others(rows, session_id, end_time) ==
    [i \in 1..Len(rows) |->
        IF rows[i].session_id # session_id
        THEN [rows[i] EXCEPT !.end_time = end_time]
        ELSE rows[i]]

update_session_end_time(rows, session_id, end_time) ==
    [i \in 1..Len(rows) |->
        IF rows[i].session_id = session_id
        THEN [rows[i] EXCEPT !.end_time = end_time]
        ELSE rows[i]]

\* get_active_session without `AND s.end_time IS NULL`.
get_active_session_closed(rows, metrics, device_id, gap, t_now) ==
    LET cutoff_time == t_now - gap
        qualifies(s) ==
            /\ s.device_id = device_id
            /\ \E j \in 1..Len(metrics) :
                  /\ metrics[j].session_id = s.session_id
                  /\ metrics[j].timestamp > cutoff_time
        Q == {i \in 1..Len(rows) : qualifies(rows[i])}
    IN  {rows[i].session_id : i \in {k \in Q : \A m \in Q : rows[m].start_time <= rows[k].start_time}}

\* The rows the SELECT of get_active_session may return first: the open sessions
\* of the device with a raw_metrics row newer than the cutoff, latest start first.
get_active_session(rows, metrics, device_id, gap, t_now) ==
    LET cutoff_time == t_now - gap
        qualifies(s) ==
            /\ s.device_id = device_id
            /\ s.end_time = Null
            /\ \E j \in 1..Len(metrics) :
                  /\ metrics[j].session_id = s.session_id
                  /\ metrics[j].timestamp > cutoff_time
        Q == {i \in 1..Len(rows) : qualifies(rows[i])}
    IN  {rows[i].session_id : i \in {k \in Q : \A m \in Q : rows[m].start_time <= rows[k].start_time}}

batch_insert_raw_metrics(metrics, session_id, records) ==
    metrics \o [i \in 1..Len(records) |->
                   [session_id |-> session_id,
                    timestamp |-> records[i].timestamp,
                    hr_bpm |-> records[i].hr_bpm]]

\* ------------------------------------------------------------- SessionManager
\* close_session without the update of the sessions row.
close_session_memory_only(w, device_id, t_end) ==
    IF Has(w.active_sessions, device_id)
    THEN [sessions |-> w.sessions,
          active_sessions |-> Del(w.active_sessions, device_id),
          last_activity |-> Del(w.last_activity, device_id)]
    ELSE w

\* close_session without the two `del`: the closed session stays in memory.
close_session_keeping(w, device_id, t_end) ==
    IF Has(w.active_sessions, device_id)
    THEN [w EXCEPT !.sessions = update_session_end_time(
                                    @, Get(w.active_sessions, device_id), t_end)]
    ELSE w

\* w = [sessions, active_sessions, last_activity]; t_end is the clock read by
\* update_session_end_time, which is called without an end_time.
close_session(w, device_id, t_end) ==
    IF Has(w.active_sessions, device_id)
    THEN LET session_id == Get(w.active_sessions, device_id)
         IN  [sessions |-> update_session_end_time(w.sessions, session_id, t_end),
              active_sessions |-> Del(w.active_sessions, device_id),
              last_activity |-> Del(w.last_activity, device_id)]
    ELSE w

\* The gap test with >= for >.
gap_exceeded_at_boundary(current_time, last_time) ==
    current_time - last_time >= gap_seconds

\* if current_time - last_time > self.gap_seconds
gap_exceeded(current_time, last_time) == current_time - last_time > gap_seconds

\* The outcomes of get_or_create_session; r are its clock reads: r[1] current_time,
\* r[2] the end_time of a lazy close, r[3] the cutoff base of get_active_session,
\* r[4] the time in the new session_id, r[5] the new row's start_time.
get_or_create_session(w, metrics, device_id, r) ==
    LET current_time == r[1]
        inmem == Has(w.active_sessions, device_id)
        last_time == IF Has(w.last_activity, device_id)
                     THEN Get(w.last_activity, device_id) ELSE 0
        expired == inmem /\ gap_exceeded(current_time, last_time)
    IN  IF inmem /\ ~expired
        THEN {[w |-> [w EXCEPT !.last_activity = Put(@, device_id, current_time)],
               session_id |-> Get(w.active_sessions, device_id),
               path |-> "memory"]}
        ELSE LET w1 == IF expired THEN close_session(w, device_id, r[2]) ELSE w
                 found == get_active_session(w1.sessions, metrics, device_id,
                                             gap_seconds, r[3])
                 c == create_session(w1.sessions, device_id, r[4], r[5])
             IN  IF found # {}
                 THEN {[w |-> [w1 EXCEPT
                                 !.active_sessions = Put(@, device_id, s),
                                 !.last_activity = Put(@, device_id, current_time)],
                        session_id |-> s,
                        path |-> "adopted"] : s \in found}
                 ELSE {[w |-> [sessions |-> c.rows,
                               active_sessions |-> Put(w1.active_sessions, device_id,
                                                       c.session_id),
                               last_activity |-> Put(w1.last_activity, device_id,
                                                     current_time)],
                        session_id |-> c.session_id,
                        path |-> "created"]}

\* check_inactive_sessions over the snapshot list(self.last_activity.items());
\* r[1] is current_time, r[i + 1] the clock read of the close of the i-th item.
RECURSIVE sweep_items(_, _, _, _)
sweep_items(w, items, r, i) ==
    IF i > Len(items) THEN w
    ELSE LET device_id == items[i][1]
             last_time == items[i][2]
             w1 == IF gap_exceeded(r[1], last_time)
                   THEN close_session(w, device_id, r[i + 1])
                   ELSE w
         IN  sweep_items(w1, items, r, i + 1)

\* check_inactive_sessions that closes nothing.
check_inactive_sessions_never(w, r) == w

check_inactive_sessions(w, r) == sweep_items(w, w.last_activity, r, 1)

\* close_all_sessions over list(self.active_sessions.keys()); r[i + 1] is the
\* clock read of the i-th close.
RECURSIVE close_items(_, _, _, _)
close_items(w, keys, r, i) ==
    IF i > Len(keys) THEN w
    ELSE close_items(close_session(w, keys[i], r[i + 1]), keys, r, i + 1)

\* close_all_sessions that closes no session.
close_all_sessions_none(w, r) == w

close_all_sessions(w, r) == close_items(w, DictKeys(w.active_sessions), r, 1)

update_activity(la, device_id, t) == Put(la, device_id, t)

\* ------------------------------------------------------------- DataProcessor
\* The fields of the processed record that the session/buffer core reads.
process_ble_data(f) == [timestamp |-> f.ts_unix_s, hr_bpm |-> f.hr_bpm]

\* The Python values of the fields that validate_data reads: None, a number
\* (int or float), or a value of another type.
PyNone == [type |-> "NoneType", value |-> 0]

PyNumber(n) == [type |-> "number", value |-> n]

PyOther == [type |-> "str", value |-> 0]

\* data.get(key): None for a key that is not in the dict.
DictGet(data, key) == IF key \in DOMAIN data THEN data[key] ELSE PyNone

\* The processed record as validate_data gets it: process_ble_data always sets
\* hr_bpm and battery_pct (None when the frame has none); the core carries no
\* speed, cadence or battery.
as_python(processed) ==
    [hr_bpm |-> IF processed.hr_bpm = Null THEN PyNone ELSE PyNumber(processed.hr_bpm),
     battery_pct |-> PyNone]

\* The range test with the bounds excluded.
out_of_range_exclusive(v, lo, hi) ==
    /\ v.type # "NoneType"
    /\ (v.type # "number" \/ v.value <= lo \/ v.value >= hi)

\* if v is not None: if not isinstance(v, (int, float)) or v < lo or v > hi
out_of_range(v, lo, hi) ==
    /\ v.type # "NoneType"
    /\ (v.type # "number" \/ v.value < lo \/ v.value > hi)

\* validate_data that accepts every record.
validate_data_accepting(data) == FALSE

\* TRUE when validate_data returns an error message, FALSE when it returns None.
validate_data(data) ==
    \/ DOMAIN data = {}
    \/ out_of_range(DictGet(data, "hr_bpm"), 30, 250)
    \/ out_of_range(DictGet(data, "battery_pct"), 0, 100)
    \/ out_of_range(DictGet(data, "speed_mps"), 0, 20)
    \/ out_of_range(DictGet(data, "cadence_spm"), 0, 300)

\* deque(maxlen=n).append(x)
deque_append(q, x, maxlen) ==
    IF maxlen = 0 THEN << >>
    ELSE IF Len(q) >= maxlen THEN Append(Tail(q), x)
    ELSE Append(q, x)

\* The watermark lookup that always misses.
last_ts_of_default(lts, session_id) == 0

\* last_ts = self.last_timestamps.get(session_id, 0)
last_ts_of(lts, session_id) == IF Has(lts, session_id) THEN Get(lts, session_id) ELSE 0

\* The duplicate test with < for <=.
is_duplicate_strict(timestamp, last_ts) == timestamp < last_ts

\* if timestamp <= last_ts: skip duplicate or out-of-order data
is_duplicate(timestamp, last_ts) == timestamp <= last_ts

add_to_buffer(bufs, lts, session_id, data) ==
    LET timestamp == data.timestamp
        last_ts == last_ts_of(lts, session_id)
        q0 == IF Has(bufs, session_id) THEN Get(bufs, session_id) ELSE << >>
        q1 == deque_append(q0, data, buffer_size)
    IN  IF is_duplicate(timestamp, last_ts)
        THEN [buffers |-> bufs, last_timestamps |-> lts, enqueued |-> FALSE,
              ret |-> FALSE]
        ELSE [buffers |-> Put(bufs, session_id, q1),
              last_timestamps |-> Put(lts, session_id, timestamp),
              enqueued |-> TRUE,
              ret |-> Len(q1) >= buffer_size]

\* get_buffer, first half: records = list(self.buffers[session_id]), or [] for
\* a session without a buffer.
get_buffer_copy(bufs, session_id) ==
    IF Has(bufs, session_id) THEN Get(bufs, session_id) ELSE << >>

\* get_buffer that returns the records and leaves them in the deque.
get_buffer_clear_keep(bufs, session_id) == bufs

\* get_buffer, second half: self.buffers[session_id].clear()
get_buffer_clear(bufs, session_id) ==
    IF Has(bufs, session_id) THEN Put(bufs, session_id, << >>) ELSE bufs

\* get_all_buffers run to completion: [buffers, result].
RECURSIVE get_all_buffers_from(_, _, _, _)
get_all_buffers_from(bufs, keys, result, i) ==
    IF i > Len(keys) THEN [buffers |-> bufs, result |-> result]
    ELSE LET records == get_buffer_copy(bufs, keys[i])
         IN  get_all_buffers_from(get_buffer_clear(bufs, keys[i]), keys,
                                  IF records # << >> THEN Put(result, keys[i], records)
                                  ELSE result,
                                  i + 1)

get_all_buffers(bufs) == get_all_buffers_from(bufs, DictKeys(bufs), EmptyDict, 1)

\* for sid, records in buffers.items(): batch_insert_raw_metrics(sid, records)
RECURSIVE insert_batches(_, _, _)
insert_batches(metrics, result, i) ==
    IF i > Len(result) THEN metrics
    ELSE insert_batches(
             IF result[i][2] # << >>
             THEN batch_insert_raw_metrics(metrics, result[i][1], result[i][2])
             ELSE metrics,
             result, i + 1)

\* ------------------------------------------------------------- aggregates
SetMin(S) == CHOOSE x \in S : \A y \in S : x <= y

SetMax(S) == CHOOSE x \in S : \A y \in S : x >= y

RECURSIVE SeqSum(_)
SeqSum(q) == IF q = << >> THEN 0 ELSE Head(q) + SeqSum(Tail(q))

\* SELECT MIN(timestamp) as start, MAX(timestamp) as end FROM raw_metrics
\* WHERE session_id = ?: NULL, NULL for a session without rows.
time_range(metrics, session_id) ==
    LET T == {metrics[j].timestamp : j \in {k \in 1..Len(metrics) :
                                              metrics[k].session_id = session_id}}
    IN  IF T = {} THEN [start |-> Null, end |-> Null]
        ELSE [start |-> SetMin(T), end |-> SetMax(T)]

\* The SELECT over one interval: the rows of the session with
\* current <= timestamp < interval_end and hr_bpm IS NOT NULL.  AVG(hr_bpm) is
\* kept as the exact fraction <<sum, count>>.
interval_row(metrics, session_id, current, interval_end) ==
    LET hrs == SelectSeq(metrics, LAMBDA m : /\ m.session_id = session_id
                                             /\ m.timestamp >= current
                                             /\ m.timestamp < interval_end
                                             /\ m.hr_bpm # Null)
        H == {hrs[j].hr_bpm : j \in 1..Len(hrs)}
    IN  [avg_hr |-> IF hrs = << >> THEN Null
                    ELSE <<SeqSum([j \in 1..Len(hrs) |-> hrs[j].hr_bpm]), Len(hrs)>>,
         min_hr |-> IF hrs = << >> THEN Null ELSE SetMin(H),
         max_hr |-> IF hrs = << >> THEN Null ELSE SetMax(H),
         sample_count |-> Len(hrs)]

AggKey(a) == <<a.session_id, a.interval_start, a.interval_seconds>>

\* INSERT INTO aggregated_metrics without OR REPLACE: the row is added and a row
\* of the same key stays.
insert_or_replace_keep(aggs, a) == Append(aggs, a)

\* INSERT OR REPLACE INTO aggregated_metrics under UNIQUE(session_id,
\* interval_start, interval_seconds): a row of the same key is deleted and the
\* new row inserted.
insert_or_replace(aggs, a) ==
    Append(SelectSeq(aggs, LAMBDA b : AggKey(b) # AggKey(a)), a)

\* while current < end_time
interval_remains(current, end_time) == current < end_time

\* The while loop of compute_aggregates from interval start `current`.
RECURSIVE aggregate_intervals(_, _, _, _, _, _, _)
aggregate_intervals(metrics, aggs, session_id, interval_seconds, current, end_time, count) ==
    IF ~interval_remains(current, end_time)
    THEN [aggregated_metrics |-> aggs, count |-> count]
    ELSE LET interval_end == current + interval_seconds
             row == interval_row(metrics, session_id, current, interval_end)
             a == [session_id |-> session_id, interval_start |-> current,
                   interval_seconds |-> interval_seconds, avg_hr |-> row.avg_hr,
                   min_hr |-> row.min_hr, max_hr |-> row.max_hr,
                   sample_count |-> row.sample_count]
         IN  IF row.sample_count > 0
             THEN aggregate_intervals(metrics, insert_or_replace(aggs, a), session_id,
                                      interval_seconds, interval_end, end_time,
                                      count + 1)
             ELSE aggregate_intervals(metrics, aggs, session_id, interval_seconds,
                                      interval_end, end_time, count)

\* [aggregated_metrics, count]: the table after the call and the value returned.
\* `if not row or not row['start']: return 0` is taken for a session without
\* rows and for one whose first timestamp is 0.
compute_aggregates(metrics, aggs, session_id, interval_seconds) ==
    LET row == time_range(metrics, session_id)
    IN  IF row.start = Null \/ row.start = 0
        THEN [aggregated_metrics |-> aggs, count |-> 0]
        ELSE aggregate_intervals(metrics, aggs, session_id, interval_seconds,
                                 row.start, row.end, 0)

\* ------------------------------------------------------------- history
NoSession == << >>

NoCall == [device_id |-> "", session_id |-> NoSession, current_time |-> Null,
           path |-> "", processed |-> [timestamp |-> Null, hr_bpm |-> Null],
           enqueued |-> FALSE, buffer_full |-> FALSE]

NoFlush == [session_id |-> NoSession, records |-> << >>]

NoPFlush == [iter |-> << >>, result |-> EmptyDict, records |-> << >>]

IsOpen(rows, session_id) ==
    \E i \in 1..Len(rows) : rows[i].session_id = session_id /\ rows[i].end_time = Null

\* The entries of resolved whose session has not been closed.
Prune(res, rows) == SelectSeq(res, LAMBDA e : IsOpen(rows, e[2][2]))

Batches(result) == [i \in 1..Len(result) |-> <<result[i][1], result[i][2]>>]

\* repeat: the call has the session, the width and the raw_metrics of the call
\* before it.
NoAggCall == [calls |-> 0, session_id |-> NoSession, interval_seconds |-> 0,
              count |-> 0, metrics |-> << >>, repeat |-> FALSE]

\* The connection loop after its first connect has succeeded, as _consume_data
\* runs: `retry_count = 0  # Reset on successful connection`.
Connected == [retry_count |-> 0, wait_time |-> 0, attempts |-> 1, exit |-> "none"]

NoCheck == [calls |-> 0, data |-> [hr_bpm |-> PyNone, battery_pct |-> PyNone],
            given |-> [hr_bpm |-> PyNone, battery_pct |-> PyNone], error |-> FALSE]

\* broadcast_ws_server at its start: connected_clients = set(), data_source =
\* None, no handler running.  it is the iterator of `for client in
\* connected_clients`; closed are the websockets whose connection has ended and
\* whose handler has not reached its finally yet.
NoIter == [used |-> 0, visited |-> {}, changed |-> FALSE]

NoBroadcast == [n |-> 0, throughout |-> {}, got |-> {}, error |-> FALSE]

RelayStart ==
    [connected_clients |-> {}, closed |-> {}, data_source |-> "None", pc |-> "recv",
     it |-> NoIter, target |-> "None", disconnected |-> {}, n |-> 0,
     throughout |-> {}, got |-> {}, done |-> NoBroadcast]

\* HRDataSync without a state file: _load_sync_state returns 0.0.
SyncStart == [last_synced_timestamp |-> 0, forwarded |-> {}, calls |-> 0]

InitExt ==
    /\ aggregated_metrics = << >>
    /\ conn = Connected
    /\ agg_call = NoAggCall
    /\ write_log = << >>
    /\ tick_log = << >>
    /\ msg = [n |-> 0, kind |-> "none"]
    /\ db_conn = "open"
    /\ checked = NoCheck
    /\ relay = RelayStart
    /\ sync = SyncStart

\* ------------------------------------------------------------- scheduling
\* The positions at which a task is suspended in an await and the event loop may
\* run the other one.  _consume_data suspends only in `async for message in
\* websocket`; periodic_tasks only in `await asyncio.sleep(30)`: _flush_buffer
\* and _print_status contain no await.  connect_and_consume also suspends in
\* websockets.connect ("connect") and in asyncio.sleep(wait_time) ("backoff").
\* _flush_buffer suspending between the copy and the clear of get_buffer.
IngestAwaits_in_drain == {"recv", "done", "connect", "backoff", "flush_clear"}

IngestAwaits == {"recv", "done", "connect", "backoff"}

\* "failed": periodic_tasks has ended with the exception of a failed flush.
PeriodicAwaits == {"sleep", "done", "failed"}

IngestMayRun == pcP \in PeriodicAwaits /\ pcM = "gather"

PeriodicMayRun == pcI \in IngestAwaits /\ pcM = "gather"

World == [sessions |-> sessions, active_sessions |-> active_sessions,
          last_activity |-> last_activity]

Init ==
    /\ now = 0
    /\ sessions = << >>
    /\ raw_metrics = << >>
    /\ active_sessions = EmptyDict
    /\ last_activity = EmptyDict
    /\ buffers = EmptyDict
    /\ last_timestamps = EmptyDict
    /\ stats = [total_records |-> 0, failed_records |-> 0]
    /\ running = TRUE
    /\ pcI = "recv"
    /\ pcP = "sleep"
    /\ pcM = "gather"
    /\ call = NoCall
    /\ flush = NoFlush
    /\ pflush = NoPFlush
    /\ accepted = {}
    /\ drained = << >>
    /\ offered = EmptyDict
    /\ resolved = EmptyDict
    /\ InitExt

\* ------------------------------------------------------------- ingestion task
\* One iteration of the loop of _consume_data for a sample frame f, from the
\* arrival of the message to the return of add_to_buffer (or to the `continue`
\* of a frame that fails validation); r are the clock reads of
\* get_or_create_session.
HandleFrame(f, r) ==
    \E o \in get_or_create_session(World, raw_metrics, f.device_id, r) :
        LET processed == process_ble_data(f)
            error == validate_data(as_python(processed))
            a == add_to_buffer(buffers, last_timestamps, o.session_id, processed)
        IN  /\ sessions' = o.w.sessions
            /\ active_sessions' = o.w.active_sessions
            /\ last_activity' = o.w.last_activity
            /\ resolved' = Prune(Put(resolved, f.device_id, <<r[1], o.session_id>>),
                                 o.w.sessions)
            /\ now' = r[5]
            /\ UNCHANGED <<raw_metrics, running, pcP, pcM, flush, pflush, drained>>
            /\ IF error
               THEN /\ stats' = [stats EXCEPT !.failed_records = @ + 1]
                    /\ UNCHANGED <<buffers, last_timestamps, pcI, call, accepted,
                                   offered>>
               ELSE /\ buffers' = a.buffers
                    /\ last_timestamps' = a.last_timestamps
                    /\ accepted' = IF a.enqueued
                                   THEN accepted \cup {<<o.session_id, processed>>}
                                   ELSE accepted
                    /\ offered' = Put(offered, o.session_id,
                                    IF Has(offered, o.session_id)
                                    THEN <<processed.timestamp,
                                           /\ Get(offered, o.session_id)[2]
                                           /\ processed.timestamp >
                                                 Get(offered, o.session_id)[1]>>
                                    ELSE <<processed.timestamp, TRUE>>)
                    /\ call' = [device_id |-> f.device_id,
                                session_id |-> o.session_id,
                                current_time |-> r[1],
                                path |-> o.path,
                                processed |-> processed,
                                enqueued |-> a.enqueued,
                                buffer_full |-> a.ret]
                    /\ pcI' = "added"
                    /\ UNCHANGED stats

Recv ==
    /\ pcI = "recv"
    /\ IngestMayRun
    /\ running
    /\ stats.total_records + stats.failed_records < MaxFrames
    /\ \E f \in Frames : \E r \in ClockReads(5) : HandleFrame(f, r)
    /\ UNCHANGED ext
    /\ UNCHANGED ext2

\* `if buffer_full:` is false: the rest of the loop body, and the next message
\* is awaited.
NotFull ==
    /\ pcI = "added"
    /\ IngestMayRun
    /\ ~call.buffer_full
    /\ stats' = [stats EXCEPT !.total_records = @ + 1]
    /\ call' = NoCall
    /\ pcI' = "recv"
    /\ UNCHANGED <<now, sessions, raw_metrics, active_sessions, last_activity, buffers,
                   last_timestamps, running, pcP, pcM, flush, pflush, accepted,
                   drained, offered, resolved>>
    /\ UNCHANGED ext
    /\ UNCHANGED ext2

\* The loop body without `if buffer_full: await self._flush_buffer(session_id)`:
\* the next message is awaited with the full queue left as it is.
FlushEnter_skipped ==
    /\ pcI = "added"
    /\ IngestMayRun
    /\ call.buffer_full
    /\ stats' = [stats EXCEPT !.total_records = @ + 1]
    /\ call' = NoCall
    /\ pcI' = "recv"
    /\ UNCHANGED <<now, sessions, raw_metrics, active_sessions, last_activity, buffers,
                   last_timestamps, running, pcP, pcM, flush, pflush, accepted,
                   drained, offered, resolved>>
    /\ UNCHANGED ext
    /\ UNCHANGED ext2

\* `if buffer_full:` is true: _flush_buffer(session_id) is entered.
FlushEnter ==
    /\ pcI = "added"
    /\ IngestMayRun
    /\ call.buffer_full
    /\ flush' = [session_id |-> call.session_id, records |-> << >>]
    /\ pcI' = "flush_copy"
    /\ UNCHANGED <<now, sessions, raw_metrics, active_sessions, last_activity, buffers,
                   last_timestamps, stats, running, pcP, pcM, call, pflush, accepted,
                   drained, offered, resolved>>
    /\ UNCHANGED ext
    /\ UNCHANGED ext2

\* _flush_buffer(session_id): records = list(self.buffers[session_id])
FlushCopy ==
    /\ pcI = "flush_copy"
    /\ IngestMayRun
    /\ flush' = [flush EXCEPT !.records = get_buffer_copy(buffers, flush.session_id)]
    /\ pcI' = "flush_clear"
    /\ UNCHANGED <<now, sessions, raw_metrics, active_sessions, last_activity, buffers,
                   last_timestamps, stats, running, pcP, pcM, call, pflush, accepted,
                   drained, offered, resolved>>
    /\ UNCHANGED ext
    /\ UNCHANGED ext2

\* _flush_buffer(session_id): self.buffers[session_id].clear(); return records
FlushClear ==
    /\ pcI = "flush_clear"
    /\ IngestMayRun
    /\ buffers' = get_buffer_clear(buffers, flush.session_id)
    /\ drained' = IF flush.records # << >>
                  THEN Append(drained, <<flush.session_id, flush.records>>)
                  ELSE drained
    /\ pcI' = "flush_write"
    /\ UNCHANGED <<now, sessions, raw_metrics, active_sessions, last_activity,
                   last_timestamps, stats, running, pcP, pcM, call, flush, pflush,
                   accepted, offered, resolved>>
    /\ UNCHANGED ext
    /\ UNCHANGED ext2

\* _flush_buffer(session_id): the batch insert and update_activity, then the
\* rest of the loop body of _consume_data.
FlushWrite ==
    /\ pcI = "flush_write"
    /\ IngestMayRun
    /\ IF flush.records # << >>
       THEN /\ raw_metrics' = batch_insert_raw_metrics(raw_metrics, flush.session_id,
                                                       flush.records)
            /\ last_activity' = update_activity(last_activity,
                                    SplitUnderscore(flush.session_id)[2], now)
       ELSE UNCHANGED <<raw_metrics, last_activity>>
    /\ stats' = [stats EXCEPT !.total_records = @ + 1]
    /\ flush' = NoFlush
    /\ call' = NoCall
    /\ pcI' = "recv"
    /\ UNCHANGED <<now, sessions, active_sessions, buffers, last_timestamps, running,
                   pcP, pcM, pflush, accepted, drained, offered, resolved>>
    /\ UNCHANGED ext
    /\ UNCHANGED ext2

\* A message arrives after the shutdown signal: `if not self.running: break`,
\* and connect_and_consume leaves its loop.
IngestExit ==
    /\ pcI = "recv"
    /\ IngestMayRun
    /\ ~running
    /\ pcI' = "done"
    /\ UNCHANGED <<now, sessions, raw_metrics, active_sessions, last_activity, buffers,
                   last_timestamps, stats, running, pcP, pcM, call, flush, pflush,
                   accepted, drained, offered, resolved>>
    /\ UNCHANGED ext
    /\ UNCHANGED ext2

\* ------------------------------------------------------------- maintenance task
\* periodic_tasks wakes from asyncio.sleep(30) with running cleared and leaves.
PeriodicExit ==
    /\ pcP = "sleep"
    /\ PeriodicMayRun
    /\ ~running
    /\ pcP' = "done"
    /\ UNCHANGED <<now, sessions, raw_metrics, active_sessions, last_activity, buffers,
                   last_timestamps, stats, running, pcI, pcM, call, flush, pflush,
                   accepted, drained, offered, resolved>>
    /\ UNCHANGED ext
    /\ UNCHANGED ext2

\* periodic_tasks wakes: check_inactive_sessions(), then _flush_buffer() enters
\* get_all_buffers and its loop `for session_id in self.buffers`.
PeriodicSweep ==
    /\ pcP = "sleep"
    /\ PeriodicMayRun
    /\ running
    /\ \E r \in ClockReads(Len(last_activity) + 1) :
          LET w == check_inactive_sessions(World, r)
          IN  /\ sessions' = w.sessions
              /\ active_sessions' = w.active_sessions
              /\ last_activity' = w.last_activity
              /\ resolved' = Prune(resolved, w.sessions)
              /\ now' = r[Len(last_activity) + 1]
    /\ pflush' = [iter |-> DictKeys(buffers), result |-> EmptyDict, records |-> << >>]
    /\ pcP' = IF Len(buffers) = 0 THEN "all_write" ELSE "all_copy"
    /\ UNCHANGED <<raw_metrics, buffers, last_timestamps, stats, running, pcI, pcM,
                   call, flush, accepted, drained, offered>>
    /\ UNCHANGED ext
    /\ UNCHANGED ext2

\* get_all_buffers -> get_buffer: records = list(self.buffers[session_id])
AllCopy ==
    /\ pcP = "all_copy"
    /\ PeriodicMayRun
    /\ pflush' = [pflush EXCEPT !.records = get_buffer_copy(buffers, Head(pflush.iter))]
    /\ pcP' = "all_clear"
    /\ UNCHANGED <<now, sessions, raw_metrics, active_sessions, last_activity, buffers,
                   last_timestamps, stats, running, pcI, pcM, call, flush, accepted,
                   drained, offered, resolved>>
    /\ UNCHANGED ext
    /\ UNCHANGED ext2

\* get_all_buffers -> get_buffer: self.buffers[session_id].clear(); the batch
\* goes into result when it is not empty.
AllClear ==
    /\ pcP = "all_clear"
    /\ PeriodicMayRun
    /\ LET session_id == Head(pflush.iter)
       IN  /\ buffers' = get_buffer_clear(buffers, session_id)
           /\ pflush' = [iter |-> Tail(pflush.iter),
                         result |-> IF pflush.records # << >>
                                    THEN Put(pflush.result, session_id, pflush.records)
                                    ELSE pflush.result,
                         records |-> << >>]
           /\ drained' = IF pflush.records # << >>
                         THEN Append(drained, <<session_id, pflush.records>>)
                         ELSE drained
    /\ pcP' = IF Len(pflush.iter) = 1 THEN "all_write" ELSE "all_copy"
    /\ UNCHANGED <<now, sessions, raw_metrics, active_sessions, last_activity,
                   last_timestamps, stats, running, pcI, pcM, call, flush, accepted,
                   offered, resolved>>
    /\ UNCHANGED ext
    /\ UNCHANGED ext2

\* _flush_buffer(): the batch inserts of the drained buffers; the tick ends and
\* the task sleeps again.  The aggregate loop that follows in periodic_tasks
\* reads raw_metrics and writes aggregated_metrics only; it is part of TickWrite.
AllWrite ==
    /\ pcP = "all_write"
    /\ PeriodicMayRun
    /\ raw_metrics' = insert_batches(raw_metrics, pflush.result, 1)
    /\ pflush' = NoPFlush
    /\ pcP' = "sleep"
    /\ UNCHANGED <<now, sessions, active_sessions, last_activity, buffers,
                   last_timestamps, stats, running, pcI, pcM, call, flush, accepted,
                   drained, offered, resolved>>
    /\ UNCHANGED ext
    /\ UNCHANGED ext2

\* ------------------------------------------------------------- run()
\* _signal_handler
Signal ==
    /\ pcM = "gather"
    /\ running
    /\ running' = FALSE
    /\ UNCHANGED <<now, sessions, raw_metrics, active_sessions, last_activity, buffers,
                   last_timestamps, stats, pcI, pcP, pcM, call, flush, pflush,
                   accepted, drained, offered, resolved>>
    /\ UNCHANGED ext
    /\ UNCHANGED ext2

\* cleanup(), once gather has returned: _flush_buffer() of all buffers, then
\* close_all_sessions(), then db.close(); r[1] is the clock read of last_flush,
\* r[i + 1] that of the i-th close.
Cleanup ==
    /\ pcM = "gather"
    /\ pcI = "done"
    /\ pcP = "done"
    /\ LET g == get_all_buffers(buffers)
       IN  /\ buffers' = g.buffers
           /\ raw_metrics' = insert_batches(raw_metrics, g.result, 1)
           /\ drained' = drained \o Batches(g.result)
    /\ \E r \in ClockReads(Len(active_sessions) + 1) :
          LET w == close_all_sessions(World, r)
          IN  /\ sessions' = w.sessions
              /\ active_sessions' = w.active_sessions
              /\ last_activity' = w.last_activity
              /\ resolved' = Prune(resolved, w.sessions)
              /\ now' = r[Len(active_sessions) + 1]
    /\ pcM' = "cleaned"
    /\ UNCHANGED <<last_timestamps, stats, running, pcI, pcP, call, flush, pflush,
                   accepted, offered>>
    /\ UNCHANGED ext
    /\ db_conn' = "closed"
    /\ UNCHANGED <<checked, relay, sync>>

\* The wall clock advances.
Tick ==
    /\ pcM = "gather"
    /\ now < MaxTime
    /\ now' = now + 1
    /\ UNCHANGED <<sessions, raw_metrics, active_sessions, last_activity, buffers,
                   last_timestamps, stats, running, pcI, pcP, pcM, call, flush, pflush,
                   accepted, drained, offered, resolved>>
    /\ UNCHANGED ext
    /\ UNCHANGED ext2

Next ==
    \/ Recv
    \/ NotFull
    \/ FlushEnter
    \/ FlushCopy
    \/ FlushClear
    \/ FlushWrite
    \/ IngestExit
    \/ PeriodicExit
    \/ PeriodicSweep
    \/ AllCopy
    \/ AllClear
    \/ AllWrite
    \/ Signal
    \/ Cleanup
    \/ Tick

Spec == Init /\ [][Next]_vars

\* ------------------------------------------------------------- scenario
\* Device D1 sends three samples, at times 0, 1 and 2; the first maintenance tick
\* (asyncio.sleep(30)) comes after them.
Script == <<[device_id |-> "D1", ts_unix_s |-> 0, hr_bpm |-> 70],
            [device_id |-> "D1", ts_unix_s |-> 1, hr_bpm |-> 72],
            [device_id |-> "D1", ts_unix_s |-> 2, hr_bpm |-> 71]>>

Handled == stats.total_records + stats.failed_records

ScriptRecv ==
    /\ pcI = "recv"
    /\ IngestMayRun
    /\ running
    /\ Handled < Len(Script)
    /\ now = Script[Handled + 1].ts_unix_s
    /\ \E r \in ClockReads(5) : HandleFrame(Script[Handled + 1], r)
    /\ UNCHANGED ext
    /\ UNCHANGED ext2

ScriptSweep ==
    /\ Handled = Len(Script)
    /\ PeriodicSweep

ScriptNext ==
    \/ ScriptRecv
    \/ NotFull
    \/ FlushEnter
    \/ FlushCopy
    \/ FlushClear
    \/ FlushWrite
    \/ IngestExit
    \/ PeriodicExit
    \/ ScriptSweep
    \/ AllCopy
    \/ AllClear
    \/ AllWrite
    \/ Signal
    \/ Cleanup
    \/ Tick

SpecScript == Init /\ [][ScriptNext]_vars

\* ------------------------------------------------------------- the whole logger
\* The logger with every kind of frame (samples with a valid or an invalid heart
\* rate, heartbeats), with batch inserts that may fail, and with the aggregate
\* step of the maintenance tick.
FullDevices == {"D1"}

FullHr == {20, 70}

FullFrames ==
    [device_id : FullDevices, ts_unix_s : 0..MaxTs, hr_bpm : FullHr, heartbeat : {FALSE}]
    \cup [device_id : FullDevices, ts_unix_s : {0}, hr_bpm : {Null}, heartbeat : {TRUE}]

\* The heartbeat test that never holds.
is_heartbeat_never(f) == FALSE

\* if data.get('heartbeat'): continue
is_heartbeat(f) == f.heartbeat

\* executemany on the autocommit connection (isolation_level=None) raising at the
\* k-th record: each INSERT before it has been committed on its own.
batch_insert_raw_metrics_failing(metrics, session_id, records, k) ==
    batch_insert_raw_metrics(metrics, session_id, SubSeq(records, 1, k - 1))

\* _flush_buffer(): the loop over the batches raising in the n-th batch, at its
\* k-th record.
insert_batches_failing(metrics, result, n, k) ==
    batch_insert_raw_metrics_failing(
        insert_batches(metrics, SubSeq(result, 1, n - 1), 1),
        result[n][1], result[n][2], k)

FailedWrite(session_id, records, k, by) ==
    [session_id |-> session_id, records |-> records, failed_at |-> k, by |-> by]

\* The position of the ingestion task after an exception in the loop body that
\* ends the task.
after_flush_error_raise == "done"

\* except Exception inside the loop of _consume_data: the next message is awaited.
after_flush_error == "recv"

DictValues(d) == [i \in 1..Len(d) |-> d[i][2]]

SeqRange(q) == {q[i] : i \in 1..Len(q)}

\* The aggregate loop over the sessions that were active when the tick began.
still_active_before(before, after) == DictValues(before)

\* for session_id in self.session_manager.active_sessions.values(), read after
\* the sweep and the flush of the tick.
still_active(before, after) == DictValues(after)

\* The aggregate loop of periodic_tasks over the session ids.
RECURSIVE aggregate_sessions(_, _, _, _)
aggregate_sessions(metrics, aggs, ids, i) ==
    IF i > Len(ids) THEN aggs
    ELSE aggregate_sessions(
             metrics,
             compute_aggregates(metrics, aggs, ids[i], agg_interval).aggregated_metrics,
             ids, i + 1)

\* What the bridge sent: a heartbeat, a sample whose heart rate is outside
\* 30..250, or a sample.
FrameKind(f) ==
    IF f.heartbeat THEN "heartbeat"
    ELSE IF f.hr_bpm # Null /\ (f.hr_bpm < 30 \/ f.hr_bpm > 250) THEN "invalid"
    ELSE "sample"

TickStep(step, S, before) == [step |-> step, sessions |-> S, before |-> before]

\* One message of any kind arrives: a heartbeat is skipped, a sample frame goes
\* through the loop body as in HandleFrame.
RecvFull ==
    /\ pcI = "recv"
    /\ IngestMayRun
    /\ running
    /\ msg.n < MaxFrames
    /\ \E f \in FullFrames :
          /\ msg' = [n |-> msg.n + 1, kind |-> FrameKind(f)]
          /\ IF is_heartbeat(f)
             THEN UNCHANGED <<now, sessions, raw_metrics, active_sessions,
                              last_activity, buffers, last_timestamps, stats, running,
                              pcI, pcP, pcM, call, flush, pflush, accepted, drained,
                              offered, resolved>>
             ELSE \E r \in ClockReads(5) : HandleFrame(f, r)
    /\ UNCHANGED <<aggregated_metrics, conn, agg_call, write_log, tick_log>>
    /\ UNCHANGED ext2

\* _flush_buffer(session_id): batch_insert_raw_metrics raises at the k-th record;
\* the exception reaches `except Exception` of _consume_data.
FlushFail ==
    /\ pcI = "flush_write"
    /\ IngestMayRun
    /\ \E k \in 1..Len(flush.records) :
          /\ raw_metrics' = batch_insert_raw_metrics_failing(raw_metrics,
                                flush.session_id, flush.records, k)
          /\ write_log' = Append(write_log,
                                 FailedWrite(flush.session_id, flush.records, k, "ingest"))
    /\ stats' = [stats EXCEPT !.failed_records = @ + 1]
    /\ flush' = NoFlush
    /\ call' = NoCall
    /\ pcI' = after_flush_error
    /\ UNCHANGED <<now, sessions, active_sessions, last_activity, buffers,
                   last_timestamps, running, pcP, pcM, pflush, accepted, drained,
                   offered, resolved, aggregated_metrics, conn, agg_call, tick_log, msg>>
    /\ UNCHANGED ext2

\* periodic_tasks wakes: check_inactive_sessions(), then _flush_buffer() enters
\* get_all_buffers (PeriodicSweep, with the sessions the sweep closed recorded).
TickSweep ==
    /\ pcP = "sleep"
    /\ PeriodicMayRun
    /\ running
    /\ \E r \in ClockReads(Len(last_activity) + 1) :
          LET w == check_inactive_sessions(World, r)
          IN  /\ sessions' = w.sessions
              /\ active_sessions' = w.active_sessions
              /\ last_activity' = w.last_activity
              /\ resolved' = Prune(resolved, w.sessions)
              /\ now' = r[Len(last_activity) + 1]
              /\ tick_log' = <<TickStep("sweep",
                                 {sessions[i].session_id : i \in {j \in 1..Len(sessions) :
                                     /\ sessions[j].end_time = Null
                                     /\ w.sessions[j].end_time # Null}},
                                 active_sessions)>>
    /\ pflush' = [iter |-> DictKeys(buffers), result |-> EmptyDict, records |-> << >>]
    /\ pcP' = IF Len(buffers) = 0 THEN "all_write" ELSE "all_copy"
    /\ UNCHANGED <<raw_metrics, buffers, last_timestamps, stats, running, pcI, pcM,
                   call, flush, accepted, drained, offered, aggregated_metrics, conn,
                   agg_call, write_log, msg>>
    /\ UNCHANGED ext2

\* _flush_buffer(): the batch inserts of the drained buffers, then the aggregate
\* loop of periodic_tasks; the task sleeps again.
TickWrite ==
    /\ pcP = "all_write"
    /\ PeriodicMayRun
    /\ raw_metrics' = insert_batches(raw_metrics, pflush.result, 1)
    /\ LET ids == still_active(tick_log[1].before, active_sessions)
       IN  /\ aggregated_metrics' = aggregate_sessions(raw_metrics', aggregated_metrics,
                                                       ids, 1)
           /\ tick_log' = tick_log \o
                 <<TickStep("flush", SeqRange(DictKeys(pflush.result)), EmptyDict),
                   TickStep("aggregate", SeqRange(ids), EmptyDict)>>
    /\ pflush' = NoPFlush
    /\ pcP' = "sleep"
    /\ UNCHANGED <<now, sessions, active_sessions, last_activity, buffers,
                   last_timestamps, stats, running, pcI, pcM, call, flush, accepted,
                   drained, offered, resolved, conn, agg_call, write_log, msg>>
    /\ UNCHANGED ext2

\* _flush_buffer(): batch_insert_raw_metrics raises in the n-th batch; nothing
\* catches the exception in periodic_tasks and the task ends.
TickFail ==
    /\ pcP = "all_write"
    /\ PeriodicMayRun
    /\ \E n \in 1..Len(pflush.result) : \E k \in 1..Len(pflush.result[n][2]) :
          /\ raw_metrics' = insert_batches_failing(raw_metrics, pflush.result, n, k)
          /\ write_log' = Append(write_log,
                                 FailedWrite(pflush.result[n][1], pflush.result[n][2],
                                             k, "tick"))
    /\ tick_log' = Append(tick_log, TickStep("flush_failed", {}, EmptyDict))
    /\ pflush' = NoPFlush
    /\ pcP' = "failed"
    /\ UNCHANGED <<now, sessions, active_sessions, last_activity, buffers,
                   last_timestamps, stats, running, pcI, pcM, call, flush, accepted,
                   drained, offered, resolved, aggregated_metrics, conn, agg_call, msg>>
    /\ UNCHANGED ext2

\* gather has returned, or has raised the exception of periodic_tasks.
GatherOver ==
    \/ pcI = "done" /\ pcP = "done"
    \/ pcP = "failed" /\ pcI \in IngestAwaits

\* cleanup() from the finally of run(): as Cleanup, also after a failed tick.
CleanupFull ==
    /\ pcM = "gather"
    /\ GatherOver
    /\ LET g == get_all_buffers(buffers)
       IN  /\ buffers' = g.buffers
           /\ raw_metrics' = insert_batches(raw_metrics, g.result, 1)
           /\ drained' = drained \o Batches(g.result)
    /\ \E r \in ClockReads(Len(active_sessions) + 1) :
          LET w == close_all_sessions(World, r)
          IN  /\ sessions' = w.sessions
              /\ active_sessions' = w.active_sessions
              /\ last_activity' = w.last_activity
              /\ resolved' = Prune(resolved, w.sessions)
              /\ now' = r[Len(active_sessions) + 1]
    /\ pcM' = "cleaned"
    /\ UNCHANGED <<last_timestamps, stats, running, pcI, pcP, call, flush, pflush,
                   accepted, offered>>
    /\ UNCHANGED ext
    /\ db_conn' = "closed"
    /\ UNCHANGED <<checked, relay, sync>>

\* cleanup(): its _flush_buffer() raises; close_all_sessions() and db.close()
\* are not reached.
CleanupFail ==
    /\ pcM = "gather"
    /\ GatherOver
    /\ LET g == get_all_buffers(buffers)
       IN  /\ buffers' = g.buffers
           /\ drained' = drained \o Batches(g.result)
           /\ \E n \in 1..Len(g.result) : \E k \in 1..Len(g.result[n][2]) :
                 /\ raw_metrics' = insert_batches_failing(raw_metrics, g.result, n, k)
                 /\ write_log' = Append(write_log,
                                        FailedWrite(g.result[n][1], g.result[n][2], k,
                                                    "cleanup"))
    /\ pcM' = "crashed"
    /\ UNCHANGED <<now, sessions, active_sessions, last_activity, last_timestamps,
                   stats, running, pcI, pcP, call, flush, pflush, accepted, offered,
                   resolved, aggregated_metrics, conn, agg_call, tick_log, msg>>
    /\ UNCHANGED ext2

NextFull ==
    \/ RecvFull
    \/ NotFull
    \/ FlushEnter
    \/ FlushCopy
    \/ FlushClear
    \/ FlushWrite
    \/ FlushFail
    \/ IngestExit
    \/ PeriodicExit
    \/ TickSweep
    \/ AllCopy
    \/ AllClear
    \/ TickWrite
    \/ TickFail
    \/ Signal
    \/ CleanupFull
    \/ CleanupFail
    \/ Tick

SpecFull == Init /\ [][NextFull]_vars

\* ------------------------------------------------------------- aggregate errors
\* The maintenance tick with two devices and with compute_aggregates calls that
\* raise (sqlite3.Error from a SELECT or an INSERT of the call).
RECURSIVE insert_rows(_, _, _)
insert_rows(aggs, rows, i) ==
    IF i > Len(rows) THEN aggs
    ELSE insert_rows(insert_or_replace(aggs, rows[i]), rows, i + 1)

\* The rows a compute_aggregates call inserts, in the order of its inserts: the
\* last `count` rows of the table it leaves.
inserted_rows(metrics, aggs, session_id, interval_seconds) ==
    LET c == compute_aggregates(metrics, aggs, session_id, interval_seconds)
        n == Len(c.aggregated_metrics)
    IN  SubSeq(c.aggregated_metrics, n - c.count + 1, n)

\* compute_aggregates raising after k - 1 of its inserts: on the autocommit
\* connection these inserts stay.
compute_aggregates_failing(metrics, aggs, session_id, interval_seconds, k) ==
    insert_rows(aggs,
                SubSeq(inserted_rows(metrics, aggs, session_id, interval_seconds),
                       1, k - 1),
                1)

\* The aggregate loop without its try/except: the first exception ends the loop.
after_aggregate_error_raise(ids, i) == Len(ids) + 1

\* except Exception as e: print(...), and the for loop takes the next session.
after_aggregate_error(ids, i) == i + 1

\* The aggregate loop of periodic_tasks in which the call for ids[i] raises at
\* its fail[i]-th insert when fail[i] > 0.
RECURSIVE aggregate_sessions_failing(_, _, _, _, _)
aggregate_sessions_failing(metrics, aggs, ids, fail, i) ==
    IF i > Len(ids) THEN aggs
    ELSE IF fail[i] = 0
    THEN aggregate_sessions_failing(
             metrics,
             compute_aggregates(metrics, aggs, ids[i], agg_interval).aggregated_metrics,
             ids, fail, i + 1)
    ELSE aggregate_sessions_failing(
             metrics,
             compute_aggregates_failing(metrics, aggs, ids[i], agg_interval, fail[i]),
             ids, fail, after_aggregate_error(ids, i))

\* The points at which the calls of the loop may raise: 0 for a call that
\* returns, k for one that raises after k - 1 inserts.
FailPoints(metrics, ids) ==
    {fail \in [1..Len(ids) -> 0..(MaxRows + 1)] :
        /\ \E i \in 1..Len(ids) : fail[i] > 0
        /\ \A i \in 1..Len(ids) :
              fail[i] <= Len(inserted_rows(metrics, << >>, ids[i], agg_interval)) + 1}

\* _flush_buffer() writes the drained buffers, then the aggregate loop runs and
\* compute_aggregates raises for at least one session; the task sleeps again.
TickAggFail ==
    /\ pcP = "all_write"
    /\ PeriodicMayRun
    /\ raw_metrics' = insert_batches(raw_metrics, pflush.result, 1)
    /\ LET ids == still_active(tick_log[1].before, active_sessions)
       IN  \E fail \in FailPoints(raw_metrics', ids) :
              /\ aggregated_metrics' = aggregate_sessions_failing(
                                           raw_metrics', aggregated_metrics, ids, fail, 1)
              /\ tick_log' = tick_log \o
                    <<TickStep("flush", SeqRange(DictKeys(pflush.result)), EmptyDict),
                      TickStep("aggregate", SeqRange(ids), EmptyDict),
                      TickStep("aggregate_failed",
                               {ids[i] : i \in {j \in 1..Len(ids) : fail[j] > 0}},
                               EmptyDict)>>
    /\ pflush' = NoPFlush
    /\ pcP' = "sleep"
    /\ UNCHANGED <<now, sessions, active_sessions, last_activity, buffers,
                   last_timestamps, stats, running, pcI, pcM, call, flush, accepted,
                   drained, offered, resolved, conn, agg_call, write_log, msg>>
    /\ UNCHANGED ext2

NextTick ==
    \/ Recv
    \/ NotFull
    \/ FlushEnter
    \/ FlushCopy
    \/ FlushClear
    \/ FlushWrite
    \/ TickSweep
    \/ AllCopy
    \/ AllClear
    \/ TickWrite
    \/ TickAggFail
    \/ Tick

SpecTick == Init /\ [][NextTick]_vars

\* ------------------------------------------------------------- idle devices
\* The logger of one device while the service runs and neither storage nor the
\* maintenance task fails.  Synchronous code runs to its next await, the clock
\* advances, and asyncio.sleep(30) returns: weak fairness of these steps.
NextLive ==
    \/ RecvFull
    \/ NotFull
    \/ FlushEnter
    \/ FlushCopy
    \/ FlushClear
    \/ FlushWrite
    \/ TickSweep
    \/ AllCopy
    \/ AllClear
    \/ TickWrite
    \/ Tick

SpecLive ==
    /\ Init
    /\ [][NextLive]_vars
    /\ WF_vars(NotFull)
    /\ WF_vars(FlushEnter)
    /\ WF_vars(FlushCopy)
    /\ WF_vars(FlushClear)
    /\ WF_vars(FlushWrite)
    /\ WF_vars(TickSweep)
    /\ WF_vars(AllCopy)
    /\ WF_vars(AllClear)
    /\ WF_vars(TickWrite)
    /\ WF_vars(Tick)

\* ------------------------------------------------------------- connection loop
\* connect_and_consume alone: the websocket is opened, lost and reopened; no
\* frame is handled.  pcI is "connect" before websockets.connect, "recv" inside
\* _consume_data, "backoff" in asyncio.sleep(wait_time), "done" after the loop.
RECURSIVE Pow2(_)
Pow2(n) == IF n = 0 THEN 1 ELSE 2 * Pow2(n - 1)

\* The end of the loop body after the websocket was lost or the connect failed:
\* the running test, retry_count += 1, the max_retries test, wait_time.
after_disconnect(c, is_running) ==
    IF ~is_running
    THEN [pc |-> "done", conn |-> [c EXCEPT !.exit = "shutdown"]]
    ELSE LET retry_count == c.retry_count + 1
         IN  IF retry_count > max_retries
             THEN [pc |-> "done",
                   conn |-> [c EXCEPT !.retry_count = retry_count,
                                      !.exit = "max_retries"]]
             ELSE [pc |-> "backoff",
                   conn |-> [c EXCEPT !.retry_count = retry_count,
                                      !.wait_time = Min(Pow2(retry_count), backoff_cap)]]

InitConnect ==
    /\ now = 0
    /\ sessions = << >>
    /\ raw_metrics = << >>
    /\ active_sessions = EmptyDict
    /\ last_activity = EmptyDict
    /\ buffers = EmptyDict
    /\ last_timestamps = EmptyDict
    /\ stats = [total_records |-> 0, failed_records |-> 0]
    /\ running = TRUE
    /\ pcI = "connect"
    /\ pcP = "sleep"
    /\ pcM = "gather"
    /\ call = NoCall
    /\ flush = NoFlush
    /\ pflush = NoPFlush
    /\ accepted = {}
    /\ drained = << >>
    /\ offered = EmptyDict
    /\ resolved = EmptyDict
    /\ aggregated_metrics = << >>
    /\ conn = [retry_count |-> 0, wait_time |-> 0, attempts |-> 0, exit |-> "none"]
    /\ agg_call = NoAggCall
    /\ write_log = << >>
    /\ tick_log = << >>
    /\ msg = [n |-> 0, kind |-> "none"]
    /\ db_conn = "open"
    /\ checked = NoCheck
    /\ relay = RelayStart
    /\ sync = SyncStart

\* What the connection loop leaves alone.
beside_connect == <<now, sessions, raw_metrics, active_sessions, last_activity,
                    buffers, last_timestamps, stats, running, pcP, pcM, call, flush,
                    pflush, accepted, drained, offered, resolved, aggregated_metrics,
                    agg_call, write_log, tick_log, msg, db_conn, checked, relay, sync>>

\* websockets.connect succeeds: retry_count = 0, _consume_data is entered.
ConnectOk ==
    /\ pcI = "connect"
    /\ conn.attempts < MaxAttempts
    /\ conn' = [conn EXCEPT !.attempts = @ + 1, !.retry_count = 0]
    /\ pcI' = "recv"
    /\ UNCHANGED beside_connect

\* websockets.connect raises a transient error (ConnectionClosedError, OSError,
\* a timeout): `except Exception`, then the end of the loop body.
ConnectFail ==
    /\ pcI = "connect"
    /\ conn.attempts < MaxAttempts
    /\ LET a == after_disconnect([conn EXCEPT !.attempts = @ + 1], running)
       IN  /\ conn' = a.conn
           /\ pcI' = a.pc
    /\ UNCHANGED beside_connect

\* websockets.connect raises InvalidURI: break.
ConnectInvalidURI ==
    /\ pcI = "connect"
    /\ conn.attempts < MaxAttempts
    /\ conn' = [conn EXCEPT !.attempts = @ + 1, !.exit = "invalid_uri"]
    /\ pcI' = "done"
    /\ UNCHANGED beside_connect

\* The websocket is closed or _consume_data returns: the end of the loop body.
ConnectionLost ==
    /\ pcI = "recv"
    /\ LET a == after_disconnect(conn, running)
       IN  /\ conn' = a.conn
           /\ pcI' = a.pc
    /\ UNCHANGED beside_connect

\* asyncio.sleep(wait_time) returns: `while self.running`.
BackoffDone ==
    /\ pcI = "backoff"
    /\ IF running
       THEN pcI' = "connect" /\ UNCHANGED conn
       ELSE pcI' = "done" /\ conn' = [conn EXCEPT !.exit = "shutdown"]
    /\ UNCHANGED beside_connect

NextConnect ==
    \/ ConnectOk
    \/ ConnectFail
    \/ ConnectInvalidURI
    \/ ConnectionLost
    \/ BackoffDone
    \/ Signal

SpecConnect == InitConnect /\ [][NextConnect]_vars

\* ------------------------------------------------------------- the service
\* run() with its two tasks when no frame arrives: the connection loop, whose
\* steps are taken while periodic_tasks is suspended, beside the maintenance
\* tick, the shutdown signal and cleanup().
ServiceConnectOk == IngestMayRun /\ ConnectOk

ServiceConnectFail == IngestMayRun /\ ConnectFail

ServiceConnectInvalidURI == IngestMayRun /\ ConnectInvalidURI

ServiceConnectionLost == IngestMayRun /\ ConnectionLost

ServiceBackoffDone == IngestMayRun /\ BackoffDone

NextService ==
    \/ ServiceConnectOk
    \/ ServiceConnectFail
    \/ ServiceConnectInvalidURI
    \/ ServiceConnectionLost
    \/ ServiceBackoffDone
    \/ PeriodicExit
    \/ TickSweep
    \/ TickWrite
    \/ Signal
    \/ CleanupFull
    \/ Tick

SpecService == InitConnect /\ [][NextService]_vars

\* ------------------------------------------------------------- shutdown
\* The service up to its shutdown.  A message that arrives after the signal ends
\* _consume_data (IngestExit); whether a message arrives, and whether the
\* websocket is lost, is the peer's choice.  What the event loop guarantees:
\* asyncio.sleep returns (PeriodicExit, ServiceBackoffDone), a tick that has
\* started runs to its end (TickWrite), and the finally of run() is executed
\* once gather is over (CleanupFull).
NextShutdown ==
    \/ ServiceConnectOk
    \/ ServiceConnectFail
    \/ ServiceConnectInvalidURI
    \/ ServiceConnectionLost
    \/ ServiceBackoffDone
    \/ IngestExit
    \/ PeriodicExit
    \/ TickSweep
    \/ TickWrite
    \/ Signal
    \/ CleanupFull
    \/ Tick

SpecShutdown ==
    /\ InitConnect
    /\ [][NextShutdown]_vars
    /\ WF_vars(ServiceBackoffDone)
    /\ WF_vars(PeriodicExit)
    /\ WF_vars(TickWrite)
    /\ WF_vars(CleanupFull)

\* ------------------------------------------------------------- validate_data
\* validate_data applied to processed records: hr_bpm and battery_pct are set
\* (to a value or None), speed_mps and cadence_spm may be missing; each field is
\* None, not a number, or a number at or next to a bound of its range.
NoField == [k \in {} |-> PyNone]

FieldValues(lo, hi) ==
    {PyNone, PyOther} \cup {PyNumber(n) : n \in {lo - 1, lo, hi, hi + 1}}

OptionalField(key, V) == {NoField} \cup {key :> v : v \in V}

ValidateInputs ==
    {b @@ s @@ c :
        b \in [hr_bpm : FieldValues(30, 250), battery_pct : FieldValues(0, 100)],
        s \in OptionalField("speed_mps", FieldValues(0, 20)),
        c \in OptionalField("cadence_spm", FieldValues(0, 300))}

InitValidate ==
    /\ now = 0
    /\ sessions = << >>
    /\ raw_metrics = << >>
    /\ active_sessions = EmptyDict
    /\ last_activity = EmptyDict
    /\ buffers = EmptyDict
    /\ last_timestamps = EmptyDict
    /\ stats = [total_records |-> 0, failed_records |-> 0]
    /\ running = TRUE
    /\ pcI = "recv"
    /\ pcP = "sleep"
    /\ pcM = "gather"
    /\ call = NoCall
    /\ flush = NoFlush
    /\ pflush = NoPFlush
    /\ accepted = {}
    /\ drained = << >>
    /\ offered = EmptyDict
    /\ resolved = EmptyDict
    /\ aggregated_metrics = << >>
    /\ conn = Connected
    /\ agg_call = NoAggCall
    /\ write_log = << >>
    /\ tick_log = << >>
    /\ msg = [n |-> 0, kind |-> "none"]
    /\ db_conn = "open"
    /\ relay = RelayStart
    /\ sync = SyncStart
    /\ \E data \in ValidateInputs :
          checked = [calls |-> 0, data |-> data, given |-> data, error |-> FALSE]

\* error = self.processor.validate_data(processed): the dict is read only.
ValidateData ==
    /\ checked.calls = 0
    /\ checked' = [checked EXCEPT !.calls = 1, !.error = validate_data(checked.data)]
    /\ UNCHANGED <<now, sessions, raw_metrics, active_sessions, last_activity, buffers,
                   last_timestamps, stats, running, pcI, pcP, pcM, call, flush, pflush,
                   accepted, drained, offered, resolved, aggregated_metrics, conn,
                   agg_call, write_log, tick_log, msg, db_conn, relay, sync>>

NextValidate == ValidateData

SpecValidate == InitValidate /\ [][NextValidate]_vars

\* ------------------------------------------------------------- restart
\* The logger started on a store that an earlier run has left: the memory of the
\* SessionManager and of the DataProcessor is empty, the tables are not.  An
\* earlier run that was killed, or whose cleanup raised, leaves sessions rows
\* with end_time NULL.  Row i of sessions has the i-th uuid; the earlier runs
\* began at time 0 and closed their sessions at time 1.
StoredSessions ==
    UNION {{rows \in [1..n -> [session_id : {SessionId(Uuids[i], 0) : i \in 1..n},
                                start_time : {0},
                                end_time : {Null, 1},
                                device_id : Devices]] :
               \A i \in 1..n : rows[i].session_id = SessionId(Uuids[i], 0)} :
           n \in 0..MaxStored}

StoredMetrics(rows) ==
    UNION {[1..n -> [session_id : {rows[i].session_id : i \in 1..Len(rows)},
                     timestamp : 0..MaxTs,
                     hr_bpm : HrValues]] : n \in 0..MaxStored}

InitRestart ==
    /\ now \in 0..MaxTime
    /\ sessions \in StoredSessions
    /\ \A i \in 1..Len(sessions) : sessions[i].end_time <= now
    /\ raw_metrics \in StoredMetrics(sessions)
    /\ active_sessions = EmptyDict
    /\ last_activity = EmptyDict
    /\ buffers = EmptyDict
    /\ last_timestamps = EmptyDict
    /\ stats = [total_records |-> 0, failed_records |-> 0]
    /\ running = TRUE
    /\ pcI = "recv"
    /\ pcP = "sleep"
    /\ pcM = "gather"
    /\ call = NoCall
    /\ flush = NoFlush
    /\ pflush = NoPFlush
    /\ accepted = {}
    /\ drained = << >>
    /\ offered = EmptyDict
    /\ resolved = EmptyDict
    /\ InitExt

\* The first frames after the restart: the loop body of _consume_data (Recv).
RestartRecv ==
    /\ pcI = "recv"
    /\ IngestMayRun
    /\ running
    /\ Handled < MaxRestartFrames
    /\ \E f \in Frames : \E r \in ClockReads(5) : HandleFrame(f, r)
    /\ UNCHANGED ext
    /\ UNCHANGED ext2

NextRestart ==
    \/ RestartRecv
    \/ NotFull

SpecRestart == InitRestart /\ [][NextRestart]_vars

\* ------------------------------------------------------------- compute_aggregates
\* compute_aggregates applied to stored samples: the table raw_metrics is drawn
\* from the sequences of at most MaxRows rows of two sessions.
AggSessions == {SessionId(Uuids[1], 0), SessionId(Uuids[2], 0)}

AggHr == {Null, 60, 80}

AggWidths == {1, 2}

AggRow == [session_id : AggSessions, timestamp : 0..MaxAggTs, hr_bpm : AggHr]

AggInputs == UNION {[1..n -> AggRow] : n \in 0..MaxRows}

InitAgg ==
    /\ now = 0
    /\ sessions = << >>
    /\ raw_metrics \in AggInputs
    /\ active_sessions = EmptyDict
    /\ last_activity = EmptyDict
    /\ buffers = EmptyDict
    /\ last_timestamps = EmptyDict
    /\ stats = [total_records |-> 0, failed_records |-> 0]
    /\ running = TRUE
    /\ pcI = "recv"
    /\ pcP = "sleep"
    /\ pcM = "gather"
    /\ call = NoCall
    /\ flush = NoFlush
    /\ pflush = NoPFlush
    /\ accepted = {}
    /\ drained = << >>
    /\ offered = EmptyDict
    /\ resolved = EmptyDict
    /\ InitExt

\* self.db.compute_aggregates(session_id, interval_seconds)
ComputeAggregates ==
    /\ agg_call.calls < MaxCalls
    /\ \E session_id \in AggSessions : \E interval_seconds \in AggWidths :
          LET c == compute_aggregates(raw_metrics, aggregated_metrics, session_id,
                                      interval_seconds)
          IN  /\ aggregated_metrics' = c.aggregated_metrics
              /\ agg_call' = [calls |-> agg_call.calls + 1, session_id |-> session_id,
                              interval_seconds |-> interval_seconds,
                              count |-> c.count, metrics |-> raw_metrics,
                              repeat |-> /\ agg_call.calls > 0
                                         /\ agg_call.session_id = session_id
                                         /\ agg_call.interval_seconds = interval_seconds
                                         /\ agg_call.metrics = raw_metrics]
    /\ UNCHANGED <<now, sessions, raw_metrics, active_sessions, last_activity, buffers,
                   last_timestamps, stats, running, pcI, pcP, pcM, call, flush, pflush,
                   accepted, drained, offered, resolved, conn, write_log, tick_log,
                   msg>>
    /\ UNCHANGED ext2

NextAgg == ComputeAggregates

SpecAgg == InitAgg /\ [][NextAgg]_vars

\* ------------------------------------------------------------- broadcast relay
\* handle_connection of broadcast_ws_server.py: one handler per websocket.  The
\* handler of the BLE bridge broadcasts each frame to the other clients and
\* suspends in `await client.send(message)`; the handlers of the other clients
\* send nothing and stay in `async for message in websocket`.  relay.pc is the
\* position of the bridge's handler: "recv", "iter" (in the for loop, between
\* two sends) or "send" (suspended in a send).
Clients == {"bridge", "c1", "c2", "c3"}

MaxBroadcasts == 1    \* frames the bridge sends

\* What the logger's variables and the sync keep while the relay runs.
beside_relay == <<now, sessions, raw_metrics, active_sessions, last_activity, buffers,
                  last_timestamps, stats, running, pcI, pcP, pcM, call, flush, pflush,
                  accepted, drained, offered, resolved, aggregated_metrics, conn,
                  agg_call, write_log, tick_log, msg, db_conn, checked, sync>>

\* Another handler may run while the bridge's handler is suspended.
RelayAwaits == {"recv", "send"}

\* A client connects: connected_clients.add(websocket).
RelayConnect ==
    /\ relay.pc \in RelayAwaits
    /\ \E c \in Clients \ (relay.connected_clients \cup relay.closed) :
          relay' = [relay EXCEPT !.connected_clients = @ \cup {c},
                                 !.it.changed = @ \/ relay.pc = "send"]
    /\ UNCHANGED beside_relay

\* The connection of a client ends; its handler has not run yet.
RelayConnectionClosed ==
    /\ relay.pc \in RelayAwaits
    /\ \E c \in relay.connected_clients \ relay.closed :
          relay' = [relay EXCEPT !.closed = @ \cup {c}, !.throughout = @ \ {c}]
    /\ UNCHANGED beside_relay

\* The handler of a closed connection leaves `async for` and runs its finally:
\* connected_clients.discard(websocket), data_source = None for the bridge.  The
\* bridge's handler gets there only from its own `async for`.
RelayUnregister ==
    /\ relay.pc \in RelayAwaits
    /\ \E c \in relay.closed :
          /\ c = "bridge" => relay.pc = "recv"
          /\ relay' = [relay EXCEPT
                          !.connected_clients = @ \ {c},
                          !.closed = @ \ {c},
                          !.data_source = IF @ = c THEN "None" ELSE @,
                          !.it.changed = @ \/ (/\ relay.pc = "send"
                                               /\ c \in relay.connected_clients)]
    /\ UNCHANGED beside_relay

\* A frame with source 'ble_hr' arrives from the bridge: data_source is set
\* and the for loop over connected_clients starts (iter() records the size of
\* the set).
RelayReceive ==
    /\ relay.pc = "recv"
    /\ "bridge" \in relay.connected_clients \ relay.closed
    /\ relay.n < MaxBroadcasts
    /\ relay' = [relay EXCEPT
                    !.data_source = "bridge",
                    !.pc = "iter",
                    !.it = [used |-> Cardinality(relay.connected_clients),
                            visited |-> {}, changed |-> FALSE],
                    !.disconnected = {},
                    !.n = @ + 1,
                    !.throughout = relay.connected_clients \ (relay.closed \cup {"bridge"}),
                    !.got = {}]
    /\ UNCHANGED beside_relay

\* What next() of the set iterator may give when the size of the set is the one
\* recorded by iter(): the clients not visited yet, or the end; after the set
\* was changed under the iterator (an add and a discard), any member or the end.
set_iter_next(r) ==
    IF r.it.changed THEN r.connected_clients \cup {"StopIteration"}
    ELSE IF r.connected_clients \ r.it.visited = {} THEN {"StopIteration"}
    ELSE r.connected_clients \ r.it.visited

\* The broadcast is over: the history of who was connected throughout and who
\* got the frame.
broadcast_done(r, error) ==
    [r EXCEPT !.pc = "recv", !.it = NoIter, !.target = "None", !.disconnected = {},
              !.throughout = {}, !.got = {},
              !.done = [n |-> r.n, throughout |-> r.throughout, got |-> r.got,
                        error |-> error]]

\* `except Exception as e: print(f"Error: {e}")`: the rest of the loop body is
\* skipped and the next message is awaited.
after_iter_error(r) == broadcast_done(r, TRUE)

\* One step of `for client in connected_clients`, up to the next await.  A set
\* whose size differs from the one iter() recorded makes next() raise
\* RuntimeError("Set changed size during iteration").  At the end of the loop
\* the clients whose send raised are removed.  The sender itself is skipped.
RelayIterNext ==
    /\ relay.pc = "iter"
    /\ IF Cardinality(relay.connected_clients) # relay.it.used
       THEN relay' = after_iter_error(relay)
       ELSE \E c \in set_iter_next(relay) :
               relay' =
                  IF c = "StopIteration"
                  THEN broadcast_done(
                          [relay EXCEPT !.connected_clients = @ \ relay.disconnected],
                          FALSE)
                  ELSE IF c = "bridge"
                  THEN [relay EXCEPT !.it.visited = @ \cup {c}]
                  ELSE [relay EXCEPT !.it.visited = @ \cup {c}, !.target = c,
                                     !.pc = "send"]
    /\ UNCHANGED beside_relay

\* await client.send(message) returns: the client has the frame.
RelaySendOk ==
    /\ relay.pc = "send"
    /\ relay.target \in relay.connected_clients \ relay.closed
    /\ relay' = [relay EXCEPT !.got = @ \cup {relay.target}, !.pc = "iter"]
    /\ UNCHANGED beside_relay

\* await client.send(message) raises for a closed connection:
\* disconnected.add(client).
RelaySendFail ==
    /\ relay.pc = "send"
    /\ relay.target \notin relay.connected_clients \ relay.closed
    /\ relay' = [relay EXCEPT !.disconnected = @ \cup {relay.target}, !.pc = "iter"]
    /\ UNCHANGED beside_relay

NextRelay ==
    \/ RelayConnect
    \/ RelayConnectionClosed
    \/ RelayUnregister
    \/ RelayReceive
    \/ RelayIterNext
    \/ RelaySendOk
    \/ RelaySendFail

SpecRelay == Init /\ [][NextRelay]_vars

\* ------------------------------------------------------------- remote sync
\* HRDataSync (src/pipe-hr/hr_sync.py) reads the raw_metrics table the logger
\* writes and forwards its rows to the remote store.  The logger is reduced to
\* its writes: _flush_buffer inserts the batch of one session, whose timestamps
\* increase within the session (add_to_buffer) but not across sessions.
MaxSyncRows == 3      \* rows the logger writes
MaxSyncCalls == 3     \* sync_new_data calls
batch_size == 2       \* sync_new_data(batch_size), 50 in hr_streamer.py

SyncSessions == {SessionId(Uuids[1], 0), SessionId(Uuids[2], 0)}

\* hr_bpm of a stored row: validate_data lets a record without heart rate pass.
SyncHr == {70, Null}

\* What the logger leaves alone while it only writes, and the relay.
beside_sync == <<now, sessions, active_sessions, last_activity, buffers,
                 last_timestamps, stats, running, pcI, pcP, pcM, call, flush, pflush,
                 accepted, drained, offered, resolved, aggregated_metrics, conn,
                 agg_call, write_log, tick_log, msg, db_conn, checked, relay>>

\* The batches _flush_buffer may write for a session: up to buffer_size records
\* with increasing timestamps, all later than the session's rows so far.
LoggerBatches(metrics, session_id) ==
    LET newest == IF time_range(metrics, session_id).end = Null THEN 0
                  ELSE time_range(metrics, session_id).end
    IN  {records \in UNION {[1..n -> [timestamp : 1..MaxTs, hr_bpm : SyncHr]] :
                               n \in 1..buffer_size} :
            /\ records[1].timestamp > newest
            /\ \A i \in 1..(Len(records) - 1) :
                  records[i].timestamp < records[i + 1].timestamp}

\* _flush_buffer: batch_insert_raw_metrics(session_id, records)
LoggerWrite ==
    /\ \E session_id \in SyncSessions :
          \E records \in LoggerBatches(raw_metrics, session_id) :
             /\ Len(raw_metrics) + Len(records) <= MaxSyncRows
             /\ raw_metrics' = batch_insert_raw_metrics(raw_metrics, session_id, records)
    /\ UNCHANGED sync
    /\ UNCHANGED beside_sync

\* SELECT * FROM raw_metrics WHERE timestamp > ? ORDER BY timestamp ASC LIMIT ?:
\* the sets of row ids the query may return; rows of equal timestamp come in an
\* order the query does not fix.
get_new_hr_records(metrics, last_synced_timestamp, limit) ==
    LET Q == {j \in 1..Len(metrics) : metrics[j].timestamp > last_synced_timestamp}
        n == Min(limit, Cardinality(Q))
    IN  {S \in SUBSET Q :
            /\ Cardinality(S) = n
            /\ \A i \in S : \A j \in Q \ S : metrics[i].timestamp <= metrics[j].timestamp}

\* transform_hr_record: float(record['hr_bpm']) raises for a row without heart
\* rate and None is returned (no record); source_seq is the local row id.
transform_hr_record(metrics, j) ==
    IF metrics[j].hr_bpm = Null THEN {}
    ELSE {[ts |-> metrics[j].timestamp, value |-> metrics[j].hr_bpm, source_seq |-> j]}

\* _save_sync_state
save_sync_state(s, timestamp) == [s EXCEPT !.last_synced_timestamp = timestamp]

\* sync_batch_to_supabase for the rows S, when the remote insert succeeds; saved
\* tells whether the state file could be written.
sync_batch_to_supabase(s, metrics, S, saved) ==
    LET transformed_records == UNION {transform_hr_record(metrics, j) : j \in S}
        latest_timestamp == SetMax({metrics[j].timestamp : j \in S})
    IN  IF S = {} \/ transformed_records = {} THEN s
        ELSE LET s1 == [s EXCEPT !.forwarded =
                           @ \cup {t.source_seq : t \in transformed_records}]
             IN  IF saved THEN save_sync_state(s1, latest_timestamp) ELSE s1

\* sync_new_data: get_new_hr_records, then sync_batch_to_supabase.
SyncNewData ==
    /\ sync.calls < MaxSyncCalls
    /\ \E S \in get_new_hr_records(raw_metrics, sync.last_synced_timestamp, batch_size) :
          \E saved \in BOOLEAN :
             sync' = [sync_batch_to_supabase(sync, raw_metrics, S, saved)
                         EXCEPT !.calls = @ + 1]
    /\ UNCHANGED raw_metrics
    /\ UNCHANGED beside_sync

\* sync_new_data whose remote insert raises in each of the three attempts of
\* @retry: the RetryError is caught, 0 is returned and nothing is saved.
SyncInsertFails ==
    /\ sync.calls < MaxSyncCalls
    /\ get_new_hr_records(raw_metrics, sync.last_synced_timestamp, batch_size) # {{}}
    /\ sync' = [sync EXCEPT !.calls = @ + 1]
    /\ UNCHANGED raw_metrics
    /\ UNCHANGED beside_sync

NextSync ==
    \/ LoggerWrite
    \/ SyncNewData
    \/ SyncInsertFails

SpecSync == Init /\ [][NextSync]_vars

\* ------------------------------------------------------------- claims
Rows(T) == {T[i] : i \in 1..Len(T)}

OpenRows(device_id) ==
    {i \in 1..Len(sessions) :
        sessions[i].device_id = device_id /\ sessions[i].end_time = Null}

RowOf(rows, session_id) ==
    rows[CHOOSE i \in 1..Len(rows) : rows[i].session_id = session_id]

\* The step in which _consume_data resolves the session of a frame of device_id
\* and offers its record to add_to_buffer.
ResolveStep(device_id) ==
    pcI = "recv" /\ pcI' = "added" /\ call'.device_id = device_id

Occurrences(seq, x) == Cardinality({i \in 1..Len(seq) : seq[i] = x})

C2_EndTimeIsLastActivity ==
    [][\A i \in 1..Len(sessions) :
          (sessions[i].end_time = Null /\ sessions'[i].end_time # Null)
          => /\ Has(last_activity, sessions[i].device_id)
             /\ sessions'[i].end_time = Get(last_activity, sessions[i].device_id)]_vars

\* C3: a get_or_create_session call for a device at most gap_seconds after the
\* previous call for it, with no close of its session in between, returns the
\* session_id of the previous call and creates no sessions row.
C3_StableResolution ==
    [][\A d \in Devices :
          (/\ ResolveStep(d)
           /\ Has(resolved, d)
           /\ call'.current_time - Get(resolved, d)[1] <= gap_seconds)
          => /\ call'.session_id = Get(resolved, d)[2]
             /\ sessions' = sessions]_vars

\* A call that found the device's session in memory, later than the call that
\* created it.
C3_Witness ==
    /\ pcI = "added"
    /\ call.path = "memory"
    /\ call.current_time > RowOf(sessions, call.session_id).start_time

C5_IncreasingAccepted ==
    [][\A d \in Devices :
          (ResolveStep(d) /\ Get(offered', call'.session_id)[2])
          => /\ call'.enqueued
             /\ call'.buffer_full
                   <=> (Len(Get(buffers', call'.session_id)) = buffer_size)]_vars

\* C6: a sample with a timestamp at or below the session's last accepted one
\* makes add_to_buffer return false and leaves every queue and every last
\* accepted timestamp as it was.
C6_IdempotentReject ==
    [][\A d \in Devices :
          (/\ ResolveStep(d)
           /\ Has(last_timestamps, call'.session_id)
           /\ call'.processed.timestamp <= Get(last_timestamps, call'.session_id))
          => /\ ~call'.buffer_full
             /\ ~call'.enqueued
             /\ buffers' = buffers
             /\ last_timestamps' = last_timestamps]_vars

\* A rejected sample of a session with a watermark and a sample in its queue.
C6_Witness ==
    /\ pcI = "added"
    /\ ~call.enqueued
    /\ Has(last_timestamps, call.session_id)
    /\ call.processed.timestamp <= Get(last_timestamps, call.session_id)
    /\ Len(Get(buffers, call.session_id)) > 0

\* C7: no step removes or lowers a session's last accepted timestamp, a drain
\* included, and a sample already written for the session is rejected when it is
\* offered again.
C7_WatermarkMonotone ==
    [][/\ \A i \in 1..Len(last_timestamps) :
             /\ Has(last_timestamps', last_timestamps[i][1])
             /\ Get(last_timestamps', last_timestamps[i][1]) >= last_timestamps[i][2]
       /\ \A d \in Devices :
             (/\ ResolveStep(d)
              /\ \E j \in 1..Len(raw_metrics) :
                    /\ raw_metrics[j].session_id = call'.session_id
                    /\ raw_metrics[j].timestamp = call'.processed.timestamp)
             => (~call'.enqueued /\ buffers' = buffers)]_vars

\* A sample replayed after it was flushed, and rejected.
C7_Witness ==
    /\ pcI = "added"
    /\ ~call.enqueued
    /\ Has(buffers, call.session_id)
    /\ Has(last_timestamps, call.session_id)
    /\ Get(buffers, call.session_id) = << >>
    /\ \E j \in 1..Len(raw_metrics) :
          /\ raw_metrics[j].session_id = call.session_id
          /\ raw_metrics[j].timestamp = call.processed.timestamp
          /\ raw_metrics[j].timestamp = Get(last_timestamps, call.session_id)

Written(x) ==
    Cardinality({j \in 1..Len(raw_metrics) :
                    /\ raw_metrics[j].session_id = x[1]
                    /\ raw_metrics[j].timestamp = x[2].timestamp
                    /\ raw_metrics[j].hr_bpm = x[2].hr_bpm})

InBuffer(x) == Occurrences(get_buffer_copy(buffers, x[1]), x[2])

\* Drained and not yet written: the batch that _flush_buffer(session_id) holds
\* after the clear, and the batches in the result of get_all_buffers.
InFlight(x) ==
    (IF pcI = "flush_write" /\ flush.session_id = x[1]
     THEN Occurrences(flush.records, x[2]) ELSE 0)
    + (IF Has(pflush.result, x[1])
       THEN Occurrences(Get(pflush.result, x[1]), x[2]) ELSE 0)

\* C8: in the scenario all three samples resolve to one session, the buffer of
\* size 2 is flushed once, with 2 rows, right after the 2nd sample, and the 3rd
\* sample is in the buffer until the next flush.
C8_EndToEnd ==
    /\ Len(sessions) <= 1
    /\ (pcI = "recv" /\ stats.total_records = 2)
          => (Len(raw_metrics) = 2 /\ Len(drained) = 1)
    /\ (pcI \in IngestAwaits /\ pcP = "sleep" /\ pcM = "gather"
           /\ stats.total_records = 3 /\ Len(drained) = 1)
          => /\ Len(raw_metrics) = 2
             /\ get_buffer_copy(buffers, sessions[1].session_id)
                   = <<process_ble_data(Script[3])>>

\* C9: every accepted sample is in exactly one place: its session's queue, a
\* drained batch about to be written, or one row of raw_metrics; raw_metrics
\* holds rows of accepted samples only; after cleanup every accepted sample is
\* one row.
C9_WrittenExactlyOnce ==
    /\ \A x \in accepted : Written(x) + InBuffer(x) + InFlight(x) = 1
    /\ \A j \in 1..Len(raw_metrics) :
          <<raw_metrics[j].session_id,
            [timestamp |-> raw_metrics[j].timestamp, hr_bpm |-> raw_metrics[j].hr_bpm]>>
             \in accepted
    /\ pcM = "cleaned" => \A x \in accepted : Written(x) = 1

\* After cleanup: three accepted samples, written by a buffer-full flush and by
\* a later flush.
C9_Witness ==
    /\ pcM = "cleaned"
    /\ Cardinality(accepted) = 3
    /\ Len(raw_metrics) = 3
    /\ Len(drained) >= 2

DrainedCount(x) ==
    Cardinality({<<i, j>> \in (1..Len(drained)) \X (1..buffer_size) :
                    /\ drained[i][1] = x[1]
                    /\ j <= Len(drained[i][2])
                    /\ drained[i][2][j] = x[2]})

\* C10: under the interleavings of the two tasks at their awaits, every accepted
\* sample is either still queued or in exactly one drained batch, and the queue
\* of a session is unchanged between the copy and the clear of its drain.
C10_DrainAtomic ==
    /\ \A x \in accepted : DrainedCount(x) + InBuffer(x) = 1
    /\ pcI = "flush_clear"
          => flush.records = get_buffer_copy(buffers, flush.session_id)
    /\ pcP = "all_clear"
          => pflush.records = get_buffer_copy(buffers, Head(pflush.iter))

\* The maintenance task between the copy and the clear of a non-empty queue,
\* after a buffer-full drain of the ingestion task.
C10_Witness ==
    /\ pcP = "all_clear"
    /\ pflush.records # << >>
    /\ Len(drained) >= 1

NoDupKeys(aggs) ==
    \A i, j \in 1..Len(aggs) : AggKey(aggs[i]) = AggKey(aggs[j]) => i = j

\* C11: no step of the logger (resolve, sweep, flush, aggregate computation,
\* shutdown) removes a sessions row or sets a non-null end_time back to NULL.
C11_EndTimeNeverCleared ==
    [][\A i \in 1..Len(sessions) :
          sessions[i].end_time # Null
          => /\ i <= Len(sessions')
             /\ sessions'[i].session_id = sessions[i].session_id
             /\ sessions'[i].end_time # Null]_vars

\* A closed session, a later session of the same device, a complete maintenance
\* tick and the shutdown.
C11_Witness ==
    /\ pcM = "cleaned"
    /\ Len(sessions) >= 2
    /\ sessions[1].end_time # Null
    /\ sessions[2].device_id = sessions[1].device_id
    /\ sessions[2].start_time >= sessions[1].end_time
    /\ Len(tick_log) = 3

\* C12: a compute_aggregates call that repeats the call before it (same session,
\* same interval width, raw_metrics unchanged) leaves aggregated_metrics with
\* the same rows (keys and values), without a duplicate key, and returns the
\* same count.
C12_AggregatesIdempotent ==
    [][(agg_call'.calls = agg_call.calls + 1 /\ agg_call'.repeat)
       => /\ Rows(aggregated_metrics') = Rows(aggregated_metrics)
          /\ NoDupKeys(aggregated_metrics')
          /\ agg_call'.count = agg_call.count]_vars

\* A repeated call over a session with rows in at least two intervals.
C12_Witness ==
    /\ agg_call.repeat
    /\ agg_call.count >= 2
    /\ Len(aggregated_metrics) >= 2

Qualifying(session_id) ==
    {j \in 1..Len(raw_metrics) :
        raw_metrics[j].session_id = session_id /\ raw_metrics[j].hr_bpm # Null}

\* The start of the bucket [first + k*w, first + (k+1)*w) that holds ts.
BucketOf(ts, first, w) == first + ((ts - first) \div w) * w

\* C13: after compute_aggregates(session, w) every stored sample of the session
\* with a heart rate is in the bucket of exactly one aggregate row of width w,
\* and every such row starts a bucket first_ts + k*w and counts exactly the
\* samples with a heart rate in its bucket, at least one.
C13_EveryBucketAggregated ==
    agg_call.calls > 0 =>
        LET s == agg_call.session_id
            w == agg_call.interval_seconds
            first == time_range(raw_metrics, s).start
            A == {i \in 1..Len(aggregated_metrics) :
                     /\ aggregated_metrics[i].session_id = s
                     /\ aggregated_metrics[i].interval_seconds = w}
        IN  /\ \A j \in Qualifying(s) :
                  Cardinality({i \in A : aggregated_metrics[i].interval_start
                                  = BucketOf(raw_metrics[j].timestamp, first, w)}) = 1
            /\ \A i \in A :
                  /\ aggregated_metrics[i].sample_count > 0
                  /\ aggregated_metrics[i].sample_count
                        = Cardinality({j \in Qualifying(s) :
                              BucketOf(raw_metrics[j].timestamp, first, w)
                                 = aggregated_metrics[i].interval_start})

\* C14: after a batch_insert_raw_metrics call that failed, none of the rows of
\* its batch is in raw_metrics.
C14_BatchAtomic ==
    \A i \in 1..Len(write_log) :
        \A j \in 1..Len(write_log[i].records) :
            Written(<<write_log[i].session_id, write_log[i].records[j]>>) = 0

\* The task that made the i-th failed write has gone on: the batch is dropped.
Dropped(i) ==
    \/ write_log[i].by = "ingest" /\ pcI \in IngestAwaits
    \/ write_log[i].by = "tick" /\ pcP \in PeriodicAwaits
    \/ write_log[i].by = "cleanup" /\ pcM # "gather"

\* C15: a batch whose write failed and that was dropped had been tried at least
\* twice.
C15_RetriedBeforeDrop ==
    \A i \in 1..Len(write_log) :
        Dropped(i)
        => Cardinality({j \in 1..Len(write_log) :
                           /\ write_log[j].session_id = write_log[i].session_id
                           /\ write_log[j].records = write_log[i].records}) >= 2

\* The step in which the batch insert of a buffer-full flush raises.
IngestFlushFailed ==
    /\ Len(write_log') = Len(write_log) + 1
    /\ write_log'[Len(write_log')].by = "ingest"

\* C16: when the write of a buffer-full flush fails, the batch is in no buffer
\* afterwards (the session's buffer is empty), failed_records grows by one, and
\* the ingestion task is back at the await of the next message, still running.
C16_IngestionSurvivesFailedFlush ==
    [][IngestFlushFailed
       => LET e == write_log'[Len(write_log')]
          IN  /\ get_buffer_copy(buffers', e.session_id) = << >>
              /\ stats'.failed_records = stats.failed_records + 1
              /\ pcI' = "recv"
              /\ running' = running
              /\ pcM' = "gather"]_vars

\* A frame accepted after a buffer-full flush failed.
C16_Witness ==
    /\ pcI = "added"
    /\ call.enqueued
    /\ \E i \in 1..Len(write_log) : write_log[i].by = "ingest"

\* C18: the step that handles a heartbeat frame leaves active_sessions,
\* last_activity, the sessions table, every buffer and every last accepted
\* timestamp as they were.
C18_HeartbeatNoEffect ==
    [][(msg'.n = msg.n + 1 /\ msg'.kind = "heartbeat")
       => UNCHANGED <<active_sessions, last_activity, sessions, buffers,
                      last_timestamps, raw_metrics>>]_vars

\* The last message was a heartbeat, and the session of the device has been
\* closed for inactivity all the same.
C18_Witness ==
    /\ msg.kind = "heartbeat"
    /\ msg.n >= 2
    /\ Len(sessions) = 1
    /\ sessions[1].end_time # Null
    /\ active_sessions = EmptyDict
    /\ pcM = "gather"

\* C19: the step that handles a sample failing validation adds one to
\* failed_records and nothing to total_records, changes no buffer and no last
\* accepted timestamp, and leaves the ingestion task awaiting the next message.
C19_InvalidDropped ==
    [][(msg'.n = msg.n + 1 /\ msg'.kind = "invalid")
       => /\ stats'.failed_records = stats.failed_records + 1
          /\ stats'.total_records = stats.total_records
          /\ buffers' = buffers
          /\ last_timestamps' = last_timestamps
          /\ accepted' = accepted
          /\ raw_metrics' = raw_metrics
          /\ pcI' = "recv"
          /\ running' = running]_vars

\* An invalid sample handled while a valid one is in the buffer.
C19_Witness ==
    /\ msg.kind = "invalid"
    /\ stats.failed_records = 1
    /\ \E i \in 1..Len(buffers) : Len(buffers[i][2]) = 1
    /\ pcI = "recv"

\* C20: a maintenance tick sweeps first (nothing is flushed or aggregated in the
\* sweep step), then drains and writes the buffers, then recomputes the
\* aggregates, over the table that holds the rows just flushed, for exactly the
\* sessions in active_sessions after the sweep; no session the sweep closed is
\* among them.
C20_TickOrder ==
    [][/\ (pcP = "sleep" /\ pcP' \in {"all_copy", "all_write"})
          => /\ tick_log'[1].step = "sweep"
             /\ Len(tick_log') = 1
             /\ UNCHANGED <<buffers, raw_metrics, aggregated_metrics>>
       /\ (pcP \in {"all_copy", "all_clear"})
          => UNCHANGED <<sessions, active_sessions, raw_metrics, aggregated_metrics>>
       /\ (pcP = "all_write" /\ pcP' = "sleep")
          => /\ [i \in 1..3 |-> tick_log'[i].step] = <<"sweep", "flush", "aggregate">>
             /\ tick_log'[3].sessions = SeqRange(DictValues(active_sessions))
             /\ tick_log'[3].sessions \cap tick_log'[1].sessions = {}
             /\ \A session_id \in tick_log'[3].sessions : IsOpen(sessions, session_id)
             /\ aggregated_metrics'
                   = aggregate_sessions(insert_batches(raw_metrics, pflush.result, 1),
                                        aggregated_metrics,
                                        DictValues(active_sessions), 1)]_vars

\* A tick whose sweep closed a session and whose aggregate step recomputed none,
\* after a tick that had aggregated the session while it was active.
C20_Witness ==
    /\ Len(tick_log) = 3
    /\ tick_log[1].sessions # {}
    /\ tick_log[3].sessions = {}
    /\ aggregated_metrics # << >>

\* C17: while the service is running, connect_and_consume does not leave its
\* loop because connects or connections have failed: it is left only on
\* shutdown, or for an invalid URI.
C17_NeverGivesUp ==
    (running /\ pcI = "done") => conn.exit = "invalid_uri"

SessionRows(aggs, session_id) ==
    {aggs[i] : i \in {j \in 1..Len(aggs) : aggs[j].session_id = session_id}}

\* The step that ends a tick in which compute_aggregates raised.
AggregateFailed ==
    /\ pcP = "all_write"
    /\ Len(tick_log') = 4
    /\ tick_log'[4].step = "aggregate_failed"

\* C21: a tick in which compute_aggregates raises for some active sessions still
\* leaves, for every other active session, the aggregate rows a call for it
\* computes from the raw_metrics of the tick, and the maintenance task is back
\* in its sleep, the service still running.
C21_AggregateErrorIsolated ==
    [][AggregateFailed
       => /\ \A i \in 1..Len(active_sessions) :
                active_sessions[i][2] \notin tick_log'[4].sessions
                => Rows(compute_aggregates(raw_metrics', << >>, active_sessions[i][2],
                                           agg_interval).aggregated_metrics)
                      \subseteq SessionRows(aggregated_metrics', active_sessions[i][2])
          /\ pcP' = "sleep"
          /\ pcM' = "gather"
          /\ running' = running]_vars

\* Two active sessions: the call for the first raised, the second one has its
\* aggregate row.
C21_Witness ==
    /\ Len(tick_log) = 4
    /\ Len(active_sessions) = 2
    /\ tick_log[4].sessions = {active_sessions[1][2]}
    /\ SessionRows(aggregated_metrics, active_sessions[2][2]) # {}
    /\ pcP = "sleep"

\* The step in which periodic_tasks runs check_inactive_sessions.
SweepStep == pcP = "sleep" /\ pcP' \in {"all_copy", "all_write"}

\* No frame of the device will arrive any more, its session is in memory, and
\* the clock of the model has room for the gap to pass.
IdleDevice(device_id) ==
    /\ msg.n = MaxFrames
    /\ Has(active_sessions, device_id)
    /\ Get(last_activity, device_id) + gap_seconds < MaxTime

\* C22: after the check_inactive_sessions call of a tick, made at time now, every
\* device left in active_sessions has a last_activity at most gap_seconds before
\* now; a session leaves active_sessions only with its end_time set; and the
\* session of a device that sends no further frame is eventually removed from
\* active_sessions, while the maintenance task keeps ticking.
C22_SweepClosesIdle ==
    /\ [][SweepStep
          => \A i \in 1..Len(active_sessions') :
                /\ Has(last_activity', active_sessions'[i][1])
                /\ now - Get(last_activity', active_sessions'[i][1]) <= gap_seconds]_vars
    /\ [][\A i \in 1..Len(active_sessions) :
             ~Has(active_sessions', active_sessions[i][1])
             => RowOf(sessions', active_sessions[i][2]).end_time # Null]_vars
    /\ \A device_id \in FullDevices :
          IdleDevice(device_id) ~> ~Has(active_sessions, device_id)

\* Every frame has arrived, and the sweep of a later tick has closed the session
\* of the device.
C22_Witness ==
    /\ msg.n = MaxFrames
    /\ msg.kind = "sample"
    /\ Len(tick_log) = 3
    /\ tick_log[1].sessions # {}
    /\ tick_log[1].before # EmptyDict
    /\ active_sessions = EmptyDict
    /\ \A i \in 1..Len(sessions) : sessions[i].end_time # Null

\* The step in which cleanup() runs to its end.
CleanupStep == pcM = "gather" /\ pcM' = "cleaned"

\* C23: once running is cleared no further frame is taken; the cleanup step
\* writes every buffered record once and leaves every buffer empty, leaves no
\* session in memory and no sessions row open, and closes the storage
\* connection, which was open until then; storage is closed by this step only,
\* and no table changes once it is closed.
C23_ShutdownOrder ==
    /\ [][~running => msg' = msg]_vars
    /\ [][CleanupStep
          => /\ \A x \in accepted : Written(x)' = Written(x) + InBuffer(x)
             /\ Len(raw_metrics')
                   = Len(raw_metrics) + SeqSum([i \in 1..Len(buffers) |->
                                                   Len(buffers[i][2])])
             /\ \A i \in 1..Len(buffers') : buffers'[i][2] = << >>
             /\ active_sessions' = EmptyDict
             /\ \A i \in 1..Len(sessions') : sessions'[i].end_time # Null
             /\ \A i \in 1..Len(sessions) :
                   sessions[i].end_time = Null => sessions'[i].end_time >= now
             /\ db_conn = "open"
             /\ db_conn' = "closed"]_vars
    /\ [][db_conn' = "closed" => pcM' = "cleaned"]_vars
    /\ [][db_conn = "closed"
          => UNCHANGED <<raw_metrics, sessions, aggregated_metrics, db_conn>>]_vars

\* A shutdown after the signal, with both tasks ended: the one session was
\* closed and the one buffered record written by cleanup (no tick has run, and
\* the buffer was not full).
C23_Witness ==
    /\ pcM = "cleaned"
    /\ ~running
    /\ pcI = "done"
    /\ pcP = "done"
    /\ db_conn = "closed"
    /\ tick_log = << >>
    /\ Len(sessions) = 1
    /\ sessions[1].end_time # Null
    /\ Len(raw_metrics) = 1
    /\ Len(drained) = 1

\* C24: when cleanup() has run, also with a batch write of its flush failing,
\* no session is left in memory, no sessions row is open and the storage
\* connection is closed.
C24_ShutdownCompletes ==
    pcM # "gather"
    => /\ active_sessions = EmptyDict
       /\ \A i \in 1..Len(sessions) : sessions[i].end_time # Null
       /\ db_conn = "closed"

\* C25: once websockets.connect has raised InvalidURI, no maintenance tick
\* begins.
C25_InvalidURIAborts ==
    [][conn.exit = "invalid_uri" => ~SweepStep]_vars

\* The field is missing or None, or a number with lo <= value <= hi.
FieldValid(data, key, lo, hi) ==
    \/ key \notin DOMAIN data
    \/ data[key] = PyNone
    \/ /\ data[key].type = "number"
       /\ lo <= data[key].value
       /\ data[key].value <= hi

IsHr(data, n) == data.hr_bpm = PyNumber(n)

\* C26: validate_data returns no error exactly when each of hr_bpm (30..250),
\* battery_pct (0..100), speed_mps (0..20) and cadence_spm (0..300) is missing,
\* None, or a number within its bounds, the bounds included; heart rates 29 and
\* 251 are rejected, and 30 and 250 are accepted when the other fields are
\* valid; the sample is as it was given.
C26_ValidationRanges ==
    checked.calls > 0 =>
        LET data == checked.data
            others == /\ FieldValid(data, "battery_pct", 0, 100)
                      /\ FieldValid(data, "speed_mps", 0, 20)
                      /\ FieldValid(data, "cadence_spm", 0, 300)
        IN  /\ ~checked.error <=> (FieldValid(data, "hr_bpm", 30, 250) /\ others)
            /\ (IsHr(data, 29) \/ IsHr(data, 251)) => checked.error
            /\ ((IsHr(data, 30) \/ IsHr(data, 250)) /\ others) => ~checked.error
            /\ checked.data = checked.given

\* An accepted sample with every field at a bound of its range.
C26_Witness ==
    /\ checked.calls > 0
    /\ ~checked.error
    /\ checked.data.hr_bpm = PyNumber(250)
    /\ checked.data.battery_pct = PyNumber(0)
    /\ "speed_mps" \in DOMAIN checked.data
    /\ checked.data.speed_mps = PyNumber(20)
    /\ "cadence_spm" \in DOMAIN checked.data
    /\ checked.data.cadence_spm = PyNumber(300)

\* C27: the step that handles a sample failing validation creates, closes and
\* adopts no session and leaves the last_activity of every device as it was.
C27_InvalidTouchesNoSession ==
    [][(msg'.n = msg.n + 1 /\ msg'.kind = "invalid")
       => UNCHANGED <<sessions, active_sessions, last_activity>>]_vars

\* C28: last_activity and active_sessions have the same keys, and every key is
\* a device_id.
C28_MemoryKeysAgree ==
    /\ SeqRange(DictKeys(last_activity)) = SeqRange(DictKeys(active_sessions))
    /\ SeqRange(DictKeys(last_activity)) \subseteq Devices

\* The open sessions rows of the device with a stored sample newer than
\* t - gap_seconds.
Adoptable(device_id, t) ==
    {i \in OpenRows(device_id) :
        \E j \in 1..Len(raw_metrics) :
            /\ raw_metrics[j].session_id = sessions[i].session_id
            /\ raw_metrics[j].timestamp > t - gap_seconds}

NewestSampleAt(session_id, t) ==
    /\ \E j \in 1..Len(raw_metrics) : raw_metrics[j].session_id = session_id
    /\ time_range(raw_metrics, session_id).end = t

\* The two in-memory paths at the boundary: a session whose last_activity is
\* exactly gap_seconds old is returned by get_or_create_session and is left
\* open by check_inactive_sessions.
GapBoundaryKeptInMemory ==
    /\ [][\A d \in Devices :
             (/\ ResolveStep(d)
              /\ Has(active_sessions, d)
              /\ now - Get(last_activity, d) = gap_seconds)
             => /\ call'.path = "memory"
                /\ call'.session_id = Get(active_sessions, d)
                /\ sessions' = sessions]_vars
    /\ [][SweepStep
          => \A i \in 1..Len(active_sessions) :
                now - Get(last_activity, active_sessions[i][1]) = gap_seconds
                => /\ Has(active_sessions', active_sessions[i][1])
                   /\ IsOpen(sessions', active_sessions[i][2])]_vars

\* C30: an age of exactly gap_seconds keeps a session in all three paths: in
\* memory (get_or_create_session, check_inactive_sessions) and in the store
\* lookup, where a call made at time now for a device without an in-memory
\* session adopts its open session whose newest stored sample has the timestamp
\* now - gap_seconds.
C30_BoundaryConsistent ==
    /\ GapBoundaryKeptInMemory
    /\ [][\A d \in Devices :
             (/\ ResolveStep(d)
              /\ ~Has(active_sessions, d)
              /\ now' = now
              /\ \E i \in OpenRows(d) :
                    NewestSampleAt(sessions[i].session_id, now - gap_seconds))
             => (call'.path = "adopted" /\ sessions' = sessions)]_vars

\* The session_ids whose sessions row has an end_time.
ClosedIds(rows) == {rows[i].session_id : i \in {k \in 1..Len(rows) : rows[k].end_time # Null}}

\* C31: a closed session is never reopened: a sessions row with an end_time is
\* never changed again, get_or_create_session never returns the session_id of a
\* row that had an end_time when it was called, and no closed session is held in
\* active_sessions (the only sessions _close_session is applied to), so every
\* session is closed at most once.
C31_ClosedNeverReopened ==
    [][/\ \A i \in 1..Len(sessions) :
             sessions[i].end_time # Null
             => i <= Len(sessions') /\ sessions'[i] = sessions[i]
       /\ \A d \in Devices :
             ResolveStep(d) => call'.session_id \notin ClosedIds(sessions)
       /\ \A i \in 1..Len(active_sessions') :
             active_sessions'[i][2] \notin ClosedIds(sessions')]_vars

\* A frame resolved to a new session for a device with a closed session, at a
\* time later than that session's end_time.
C31_Witness ==
    /\ pcI = "added"
    /\ call.path = "created"
    /\ \E i \in 1..Len(sessions) :
          /\ sessions[i].device_id = call.device_id
          /\ sessions[i].end_time # Null
          /\ sessions[i].session_id # call.session_id
          /\ call.current_time > sessions[i].end_time

\* run(): once connect_and_consume has ended and the signal has come, gather
\* returns when periodic_tasks wakes up, and cleanup() runs.
ShutdownAfterIngestExit == (~running /\ pcI = "done") ~> (pcM = "cleaned")

\* C32: once the shutdown signal has cleared running, cleanup() is eventually
\* executed, whether the websocket is open and silent (no further frame
\* arrives) or connect_and_consume has already ended.
C32_ShutdownLive == (~running /\ pcI \in {"recv", "done"}) ~> (pcM = "cleaned")

\* The step in which a batch write of the maintenance tick's _flush_buffer()
\* raises.
TickFlushFailed ==
    /\ Len(write_log') = Len(write_log) + 1
    /\ write_log'[Len(write_log')].by = "tick"

\* C33: a batch write that raises in the flush of a maintenance tick ends
\* neither the maintenance loop nor the service: after that step periodic_tasks
\* is back at asyncio.sleep(30) for its next tick, the service is still running
\* and the ingestion task still awaits its next message.
C33_MaintenanceSurvivesFailedFlush ==
    [][TickFlushFailed
       => /\ pcP' = "sleep"
          /\ pcM' = "gather"
          /\ running'
          /\ pcI' = "recv"]_vars

\* The step in which a batch write raises in a _flush_buffer() of all buffers,
\* in the maintenance tick or in cleanup().
FlushAllFailed ==
    /\ Len(write_log') = Len(write_log) + 1
    /\ write_log'[Len(write_log')].by \in {"tick", "cleanup"}

\* all_buffers of the _flush_buffer() that is about to write: the result the
\* tick holds, or the one cleanup() gets.
DrainedByFlushAll ==
    IF pcP = "all_write" THEN pflush.result ELSE get_all_buffers(buffers).result

BatchWritten(metrics, session_id, records) ==
    \A k \in 1..Len(records) :
        \E j \in 1..Len(metrics) :
            /\ metrics[j].session_id = session_id
            /\ metrics[j].timestamp = records[k].timestamp
            /\ metrics[j].hr_bpm = records[k].hr_bpm

\* C34: when a batch write raises during a flush of all buffers, the batches of
\* every other session drained by that flush are written all the same.
C34_OtherBatchesWritten ==
    [][FlushAllFailed
       => \A n \in 1..Len(DrainedByFlushAll) :
             DrainedByFlushAll[n][1] # write_log'[Len(write_log')].session_id
             => BatchWritten(raw_metrics', DrainedByFlushAll[n][1],
                             DrainedByFlushAll[n][2])]_vars

\* The step in which add_to_buffer enqueues the record of a frame.
EnqueueStep == pcI = "recv" /\ pcI' = "added" /\ call'.enqueued

\* C35: every queue holds at most buffer_size samples; while the ingestion task
\* awaits its next message every queue holds fewer than buffer_size; and the
\* append of an accepted sample extends its session's queue by that sample
\* without evicting one (the queue before is kept as a prefix).
C35_BoundedWithoutEviction ==
    [][/\ \A i \in 1..Len(buffers') : Len(buffers'[i][2]) <= buffer_size
       /\ pcI' = "recv" => \A i \in 1..Len(buffers') : Len(buffers'[i][2]) < buffer_size
       /\ EnqueueStep
          => get_buffer_copy(buffers', call'.session_id)
                = Append(get_buffer_copy(buffers, call'.session_id),
                         call'.processed)]_vars

\* A queue that has just reached buffer_size, before its flush.
C35_Witness ==
    /\ pcI = "added"
    /\ call.enqueued
    /\ call.buffer_full
    /\ Len(get_buffer_copy(buffers, call.session_id)) = buffer_size

\* C36: in the step in which _close_session sets the end_time of a session
\* (lazy close, sweep or shutdown), that session's queue is empty and no drained
\* batch of it is still waiting to be written.
C36_ClosedAfterPersisted ==
    [][\A i \in 1..Len(sessions) :
          (sessions[i].end_time = Null /\ sessions'[i].end_time # Null)
          => /\ get_buffer_copy(buffers, sessions[i].session_id) = << >>
             /\ get_buffer_copy(buffers', sessions[i].session_id) = << >>
             /\ ~Has(pflush'.result, sessions[i].session_id)]_vars

\* The j-th raw_metrics row lies in the interval of an aggregate row of its
\* session.
Reflected(j) ==
    \E i \in 1..Len(aggregated_metrics) :
        /\ aggregated_metrics[i].session_id = raw_metrics[j].session_id
        /\ aggregated_metrics[i].interval_start <= raw_metrics[j].timestamp
        /\ raw_metrics[j].timestamp
              < aggregated_metrics[i].interval_start
                   + aggregated_metrics[i].interval_seconds

\* C37: after a clean shutdown every persisted sample with a heart rate is
\* reflected in an aggregate row: nothing runs after cleanup(), so a sample
\* that is not covered then is never covered.
C37_AggregatesCoverPersisted ==
    pcM = "cleaned"
    => \A j \in 1..Len(raw_metrics) : raw_metrics[j].hr_bpm # Null => Reflected(j)

\* C38: when a broadcast of the relay is over, every client other than the
\* bridge that was connected from its start to its end has got the frame, and
\* the bridge itself never gets it.
C38_RelayDelivers ==
    /\ relay.done.throughout \subseteq relay.done.got
    /\ "bridge" \notin relay.got
    /\ "bridge" \notin relay.done.got

\* The watermark of the sync never decreases while the process runs.
WatermarkMonotone ==
    [][sync'.last_synced_timestamp >= sync.last_synced_timestamp]_vars

\* C39: no row with a heart rate is skipped by the sync: every such row of
\* raw_metrics has been forwarded or is still later than the watermark, so that
\* a later get_new_hr_records selects it.
C39_NoRowSkipped ==
    \A j \in 1..Len(raw_metrics) :
        (raw_metrics[j].hr_bpm # Null /\ j \notin sync.forwarded)
        => raw_metrics[j].timestamp > sync.last_synced_timestamp

====
